---------------------------- MODULE Spec2Model ----------------------------
(***************************************************************************)
(* Model of the nutanix-exporter: the per-section health tracker           *)
(* (internal/nutanix exporter_health, revision used by main.go), the       *)
(* upstream client's request function and the /metrics handler of main.go. *)
(*                                                                         *)
(* The specifications defined are:                                         *)
(*   SpecHealth - any caller invoking the exported tracker helpers and the *)
(*                client request function in any order (as the package's   *)
(*                tests do);                                               *)
(*   Spec       - concurrent /metrics scrapes handled by main.go;          *)
(*   SpecPaging - one fetchAllPages call against every bounded upstream;   *)
(*   SpecConc   - goroutines calling MarkCmdSuccess on one section;        *)
(*   SpecCollect- one entity collector's Describe followed by Collect;     *)
(*   SpecStats  - one value conversion, or one collector instance deriving *)
(*                the stats of an entity from discovery responses;         *)
(*   SpecNics, SpecNicsFair - one DescribeNicsParallel call, without and   *)
(*                with fair scheduling of its goroutines;                  *)
(*   SpecLocksFair - the tracker operations at the level of their locks,   *)
(*                with the poll-cycle ticker of exporter_health.go, under  *)
(*                fair scheduling.                                         *)
(***************************************************************************)
EXTENDS Integers, Sequences, FiniteSets, TLC

VARIABLES
    healthBySection,   \* map[string]*ExporterHealth (domain grows lazily)
    lastCall,          \* description of the operation performed by the last step
    hist,              \* per section: what the SpecHealth caller has called so far (history)
    calls,             \* number of helper calls made by the SpecHealth caller
    clusterUUIDCache,  \* main.go: section -> cached cluster uuid
    nutanixURL,        \* main.go: the global *nutanixURL flag value
    req,               \* per scrape request: the handler's local variables and position
    pager,             \* one fetchAllPages call: the upstream's pages and the loop's locals
    gor,               \* goroutines calling MarkCmdSuccess concurrently: position and locals
    mu,                \* holder of the section record's mutex (h.mu), NoHolder when free
    run,               \* one collector's Describe and Collect: its input and its locals
    conv,              \* one application of a value conversion: argument and result
    sc,                \* one collector instance deriving an entity's stats
    nics,              \* one DescribeNicsParallel call: caller, WaitGroup, semaphore, goroutines
    lk                 \* the tracker's locks and the goroutines taking them

vars == <<healthBySection, lastCall, hist, calls, clusterUUIDCache, nutanixURL, req,
          pager, gor, mu, run, conv, sc, nics, lk>>

handlerVars == <<clusterUUIDCache, nutanixURL, req>>

\* the state of the component specifications, untouched by the tracker callers and
\* by the handler
componentVars == <<pager, gor, mu, run, conv, sc, nics, lk>>

\* the state of the stat conversions and of the stat-deriving collector instance
statVars == <<conv, sc>>

-----------------------------------------------------------------------------
(* Bounds *)

\* number of helper calls explored under SpecHealth
MaxCalls == 3

\* number of concurrent /metrics requests explored under Spec
NumRequests == 2

\* recorded MarkCollectionStart results per section between two ends
MaxStartLog == 3

\* pages an upstream serves before it answers with an error status
MaxPages == 2

\* goroutines calling MarkCmdSuccess concurrently, and calls made by each
NumGoroutines == 2

CallsPerGoroutine == 2

\* entities in a collector's discovery document
MaxEntities == 2

\* number of network sub-collectors one DescribeNicsParallel call fans out to
NumNics == 3

\* goroutines calling a tracker operation, ticks of the poll-cycle ticker, and metrics
\* one Collect sends (the collector sends 13, one after the other)
NumLockWorkers == 2
MaxTicks == 1
MaxSends == 2

(* time.Duration values (nanoseconds) passed by callers *)
Durations == {0, 1500, 3000}

\* time.Microsecond expressed in time.Duration units (nanoseconds)
NsPerUs == 1000

\* sections addressed by direct callers of the helpers
HealthSections == {"s1", "s2"}

-----------------------------------------------------------------------------
(* ExporterHealth record and helpers *)

ZeroHealth ==
    [ errConnTimeout                   |-> 0,
      errCollectionStillRunning        |-> 0,
      errException                     |-> 0,
      errDNSFailure                    |-> 0,
      successDeviceCmd                 |-> 0,
      failureDeviceCmd                 |-> 0,
      totalPollCycles                  |-> 0,
      successfulPCCallNoErrors         |-> 0,
      failedCollections                |-> 0,
      totalSuccessCmdExecDurationUS    |-> 0,
      totalFailureCmdExecDurationUS    |-> 0,
      totalSuccessCollectionDurationUS |-> 0,
      totalFailureCollectionDurationUS |-> 0,
      activeCollections                |-> 0,
      cmdExecDurationAtCollectionStart |-> 0,
      failureCmdExecDurationAtStart    |-> 0 ]

\* uint64(duration / time.Microsecond): truncating integer division
ToMicroseconds(d) == d \div NsPerUs

getHealth_AlwaysNew(hb, section) ==
    [k \in (DOMAIN hb) \cup {section} |-> IF k = section THEN ZeroHealth ELSE hb[k]]

\* getHealth: the map after the lookup (the record is created on first reference)
getHealth(hb, section) ==
    IF section \in DOMAIN hb
    THEN hb
    ELSE [k \in (DOMAIN hb) \cup {section} |-> IF k = section THEN ZeroHealth ELSE hb[k]]

MarkCollectionStart_NoCount(h) ==
    IF h.activeCollections > 0
    THEN [ h |-> h, ret |-> FALSE ]
    ELSE [ h   |-> [h EXCEPT !.activeCollections = @ + 1,
                             !.cmdExecDurationAtCollectionStart = h.totalSuccessCmdExecDurationUS,
                             !.failureCmdExecDurationAtStart = h.totalFailureCmdExecDurationUS],
           ret |-> TRUE ]

\* MarkCollectionStart: new record and returned bool
MarkCollectionStart(h) ==
    IF h.activeCollections > 0
    THEN [ h   |-> [h EXCEPT !.errCollectionStillRunning = @ + 1],
           ret |-> FALSE ]
    ELSE [ h   |-> [h EXCEPT !.activeCollections = @ + 1,
                             !.cmdExecDurationAtCollectionStart = h.totalSuccessCmdExecDurationUS,
                             !.failureCmdExecDurationAtStart = h.totalFailureCmdExecDurationUS],
           ret |-> TRUE ]

\* collection duration added by MarkCollectionEnd: command time + processing overhead
CollectionDurationUS(wallClockDurationUS, incrementalCmdDurationUS) ==
    LET processingOverheadUS ==
            IF wallClockDurationUS >= incrementalCmdDurationUS
            THEN wallClockDurationUS - incrementalCmdDurationUS
            ELSE wallClockDurationUS
    IN  incrementalCmdDurationUS + processingOverheadUS

MarkCollectionEnd_NoFloor(h, success, duration) ==
    LET wall == ToMicroseconds(duration)
        h1   == [h EXCEPT !.totalPollCycles = @ + 1]
        h2   == IF success
                THEN [h1 EXCEPT
                        !.totalSuccessCollectionDurationUS = @ +
                            CollectionDurationUS(wall, h.totalSuccessCmdExecDurationUS - h.cmdExecDurationAtCollectionStart),
                        !.successfulPCCallNoErrors = @ + 1]
                ELSE [h1 EXCEPT
                        !.totalFailureCollectionDurationUS = @ +
                            CollectionDurationUS(wall, h.totalFailureCmdExecDurationUS - h.failureCmdExecDurationAtStart),
                        !.failedCollections = @ + 1]
    IN  [h2 EXCEPT !.activeCollections = @ - 1]

MarkCollectionEnd_WallClockOnly(h, success, duration) ==
    LET wall == ToMicroseconds(duration)
        h1   == [h EXCEPT !.totalPollCycles = @ + 1]
        h2   == IF success
                THEN [h1 EXCEPT !.totalSuccessCollectionDurationUS = @ + wall,
                                !.successfulPCCallNoErrors = @ + 1]
                ELSE [h1 EXCEPT !.totalFailureCollectionDurationUS = @ + wall,
                                !.failedCollections = @ + 1]
    IN  IF h2.activeCollections > 0 THEN [h2 EXCEPT !.activeCollections = @ - 1] ELSE h2

MarkCollectionEnd_NoPollCycle(h, success, duration) ==
    LET wall == ToMicroseconds(duration)
        h2   == IF success
                THEN [h EXCEPT
                        !.totalSuccessCollectionDurationUS = @ +
                            CollectionDurationUS(wall, h.totalSuccessCmdExecDurationUS - h.cmdExecDurationAtCollectionStart),
                        !.successfulPCCallNoErrors = @ + 1]
                ELSE [h EXCEPT
                        !.totalFailureCollectionDurationUS = @ +
                            CollectionDurationUS(wall, h.totalFailureCmdExecDurationUS - h.failureCmdExecDurationAtStart),
                        !.failedCollections = @ + 1]
    IN  IF h2.activeCollections > 0 THEN [h2 EXCEPT !.activeCollections = @ - 1] ELSE h2

MarkCollectionEnd_AlwaysSuccessCounter(h, success, duration) ==
    LET wall == ToMicroseconds(duration)
        h1   == [h EXCEPT !.totalPollCycles = @ + 1, !.successfulPCCallNoErrors = @ + 1]
        h2   == IF success
                THEN [h1 EXCEPT
                        !.totalSuccessCollectionDurationUS = @ +
                            CollectionDurationUS(wall, h.totalSuccessCmdExecDurationUS - h.cmdExecDurationAtCollectionStart)]
                ELSE [h1 EXCEPT
                        !.totalFailureCollectionDurationUS = @ +
                            CollectionDurationUS(wall, h.totalFailureCmdExecDurationUS - h.failureCmdExecDurationAtStart),
                        !.failedCollections = @ + 1]
    IN  IF h2.activeCollections > 0 THEN [h2 EXCEPT !.activeCollections = @ - 1] ELSE h2

\* MarkCollectionEnd: new record
MarkCollectionEnd(h, success, duration) ==
    LET wall == ToMicroseconds(duration)
        h1   == [h EXCEPT !.totalPollCycles = @ + 1]
        h2   == IF success
                THEN [h1 EXCEPT
                        !.totalSuccessCollectionDurationUS = @ +
                            CollectionDurationUS(wall, h.totalSuccessCmdExecDurationUS - h.cmdExecDurationAtCollectionStart),
                        !.successfulPCCallNoErrors = @ + 1]
                ELSE [h1 EXCEPT
                        !.totalFailureCollectionDurationUS = @ +
                            CollectionDurationUS(wall, h.totalFailureCmdExecDurationUS - h.failureCmdExecDurationAtStart),
                        !.failedCollections = @ + 1]
    IN  IF h2.activeCollections > 0 THEN [h2 EXCEPT !.activeCollections = @ - 1] ELSE h2

MarkCmdSuccess(h, d) ==
    [h EXCEPT !.successDeviceCmd = @ + 1,
              !.totalSuccessCmdExecDurationUS = @ + ToMicroseconds(d)]

MarkCmdFailure_CountsCollection(h, d) ==
    [h EXCEPT !.failureDeviceCmd = @ + 1,
              !.totalFailureCmdExecDurationUS = @ + ToMicroseconds(d),
              !.failedCollections = @ + 1]

MarkCmdFailure(h, d) ==
    [h EXCEPT !.failureDeviceCmd = @ + 1,
              !.totalFailureCmdExecDurationUS = @ + ToMicroseconds(d)]

IncConnTimeout(h) == [h EXCEPT !.errConnTimeout = @ + 1]

IncDNSFailure(h) == [h EXCEPT !.errDNSFailure = @ + 1]

IncException(h) == [h EXCEPT !.errException = @ + 1]


-----------------------------------------------------------------------------
(* Upstream client *)

\* what the transport and the server do with one request
RequestOutcomes == {"ok", "http_error", "timeout", "no_such_host", "transport_error", "bad_request"}

\* makeRequestWithParams: the tracker map after the call, and the returned (resp, err)
makeRequestWithParams(hb, url, outcome) ==
    [ hb   |-> hb,
      resp |-> (outcome = "ok"),
      err  |-> (outcome # "ok") ]

-----------------------------------------------------------------------------
(* paging.go: fetchAllPages (fetchAllPagesV2; fetchAllPagesV1 has the same loop) *)

\* entity lists a page response can carry
PageEntities == {<<"e1">>, <<"e1", "e2">>, <<"e3">>}

\* a response the request function reports as an error
ErrPage ==
    [ err |-> TRUE, bodyOK |-> FALSE, hasEntities |-> FALSE, entitiesIsList |-> FALSE, entities |-> <<>>,
      hasMetadata |-> FALSE, metadataOK |-> FALSE, EndIndex |-> 0, GrandTotal |-> 0 ]

\* a response whose body decodes to a document without any field
EmptyPage == [ErrPage EXCEPT !.err = FALSE, !.bodyOK = TRUE]

\* page responses: a request error, a body that does not decode, and decoded
\* documents without an entities field, with entities that are not a list, and with
\* an entity list and no metadata, metadata that does not unmarshal, or metadata
\* carrying end_index and grand_total_entities
Pages ==
    {ErrPage}
    \cup {[ErrPage EXCEPT !.err = FALSE]}
    \cup {EmptyPage}
    \cup {[EmptyPage EXCEPT !.hasEntities = TRUE]}
    \cup {[EmptyPage EXCEPT !.hasEntities = TRUE, !.entitiesIsList = TRUE,
                            !.entities = e] : e \in PageEntities}
    \cup {[EmptyPage EXCEPT !.hasEntities = TRUE, !.entitiesIsList = TRUE,
                            !.entities = e, !.hasMetadata = TRUE] : e \in PageEntities}
    \cup {[EmptyPage EXCEPT !.hasEntities = TRUE, !.entitiesIsList = TRUE,
                            !.entities = e, !.hasMetadata = TRUE, !.metadataOK = TRUE,
                            !.EndIndex = i, !.GrandTotal = 3] :
            e \in PageEntities, i \in 1..3}

\* what the upstream serves for page 1, 2, ...
Upstreams == UNION {[1..n -> Pages] : n \in 1..MaxPages}

\* the page served for page number n (an error status once the upstream has run out)
ServedPage(upstream, n) == IF n \in DOMAIN upstream THEN upstream[n] ELSE ErrPage

\* the url of the client that pages
PagingURL == "https://a:9440"

\* lines 39-49: the locals of a fetchAllPages call at loop entry
NewPager(upstream) ==
    [ upstream    |-> upstream,
      page        |-> 1,
      allEntities |-> <<>>,
      requests    |-> <<>>,
      pc          |-> "request",
      result      |-> ErrPage,
      err         |-> FALSE ]

IdlePager == NewPager(<<>>)

fetchAllPagesRequest_KeepEntities(p, hb, url) ==
    LET served == ServedPage(p.upstream, p.page)
        res    == makeRequestWithParams(hb, url, IF served.err THEN "http_error" ELSE "ok")
    IN  [ hb    |-> res.hb,
          pager |-> IF res.err
                    THEN [p EXCEPT !.requests = Append(@, p.page), !.pc = "returned"]
                    ELSE [p EXCEPT !.requests = Append(@, p.page), !.pc = "decode",
                                   !.result = served] ]

\* lines 51-55: set the page parameter and issue the request; an error returns (nil, err)
fetchAllPagesRequest(p, hb, url) ==
    LET served == ServedPage(p.upstream, p.page)
        res    == makeRequestWithParams(hb, url, IF served.err THEN "http_error" ELSE "ok")
    IN  [ hb    |-> res.hb,
          pager |-> IF res.err
                    THEN [p EXCEPT !.requests = Append(@, p.page), !.pc = "returned",
                                   !.allEntities = <<>>, !.err = TRUE]
                    ELSE [p EXCEPT !.requests = Append(@, p.page), !.pc = "decode",
                                   !.result = served] ]

fetchAllPagesDecode_StrictEnd(p) ==
    LET res == p.result
        all == p.allEntities \o res.entities
    IN  IF ~res.bodyOK
        THEN [p EXCEPT !.pc = "returned", !.allEntities = <<>>, !.err = TRUE]
        ELSE IF ~res.hasEntities \/ ~res.entitiesIsList
        THEN [p EXCEPT !.pc = "returned"]
        ELSE IF ~res.hasMetadata
        THEN [p EXCEPT !.pc = "returned", !.allEntities = all]
        ELSE IF ~res.metadataOK
        THEN [p EXCEPT !.pc = "returned", !.allEntities = <<>>, !.err = TRUE]
        ELSE IF res.EndIndex > res.GrandTotal
        THEN [p EXCEPT !.pc = "returned", !.allEntities = all]
        ELSE [p EXCEPT !.pc = "request", !.allEntities = all, !.page = @ + 1]

fetchAllPagesDecode_MetadataRequired(p) ==
    LET res == p.result
        all == p.allEntities \o res.entities
    IN  IF ~res.bodyOK
        THEN [p EXCEPT !.pc = "returned", !.allEntities = <<>>, !.err = TRUE]
        ELSE IF ~res.hasEntities \/ ~res.entitiesIsList
        THEN [p EXCEPT !.pc = "returned"]
        ELSE IF ~res.hasMetadata \/ ~res.metadataOK
        THEN [p EXCEPT !.pc = "returned", !.allEntities = <<>>, !.err = TRUE]
        ELSE IF res.EndIndex >= res.GrandTotal
        THEN [p EXCEPT !.pc = "returned", !.allEntities = all]
        ELSE [p EXCEPT !.pc = "request", !.allEntities = all, !.page = @ + 1]

\* lines 58-89: the rest of one loop iteration, on the decoded response
fetchAllPagesDecode(p) ==
    LET res == p.result
        all == p.allEntities \o res.entities
    IN  IF ~res.bodyOK
        THEN [p EXCEPT !.pc = "returned", !.allEntities = <<>>, !.err = TRUE]
        ELSE IF ~res.hasEntities \/ ~res.entitiesIsList
        THEN [p EXCEPT !.pc = "returned"]
        ELSE IF ~res.hasMetadata
        THEN [p EXCEPT !.pc = "returned", !.allEntities = all]
        ELSE IF ~res.metadataOK
        THEN [p EXCEPT !.pc = "returned", !.allEntities = <<>>, !.err = TRUE]
        ELSE IF res.EndIndex >= res.GrandTotal
        THEN [p EXCEPT !.pc = "returned", !.allEntities = all]
        ELSE [p EXCEPT !.pc = "request", !.allEntities = all, !.page = @ + 1]

-----------------------------------------------------------------------------
(* Goroutines calling MarkCmdSuccess on one section *)

Goroutines == 1..NumGoroutines

\* h.mu is free
NoHolder == 0

\* the section all goroutines address
ConcSection == "s1"

\* durations (nanoseconds) passed by the goroutines
ConcDurations == {1500, 3000}

\* a goroutine about to make its first call: calls left, the duration of the call in
\* progress, the record fields it has read, the microseconds it has passed so far
IdleGoroutine ==
    [ pc |-> "call", left |-> CallsPerGoroutine, d |-> 0, loaded |-> ZeroHealth, passedUS |-> 0 ]

-----------------------------------------------------------------------------
(* Entity collectors: Describe and Collect of one collector *)

\* collectors modelled: storage_containers.go, hosts.go, cluster.go, snapshots.go
Collectors == {"storage_containers", "hosts", "cluster", "snapshots"}

\* the collector's discovery request succeeds or fails
DiscoveryOutcomes == {"ok", "failed"}

\* an entity of the discovery document: whether it carries its identifying uuid and
\* whether it carries a stats object
Entities == [hasUUID : BOOLEAN, hasStats : BOOLEAN]

EntityLists == UNION {[1..n -> Entities] : n \in 0..MaxEntities}

\* the collector before registration
NewRun(collector, discovery, entities) ==
    [ collector   |-> collector,
      discovery   |-> discovery,
      entities    |-> entities,
      pc          |-> "describe",
      resultNil   |-> TRUE,
      descriptors |-> {},
      i           |-> 1,
      emitted     |-> {} ]

IdleRun == NewRun("hosts", "ok", <<>>)

\* Describe, by collector: storage_containers ignores the request error and reads
\* resp.Body of a nil response; hosts and cluster set result to nil and return;
\* snapshots describes fixed metrics without any request
Describe(r) ==
    LET anyStats == \E k \in DOMAIN r.entities : r.entities[k].hasStats
        stat     == IF anyStats THEN {"stat"} ELSE {}
    IN  CASE r.collector = "storage_containers" ->
               IF r.discovery = "failed"
               THEN [r EXCEPT !.pc = "panicked"]
               ELSE [r EXCEPT !.pc = "collect", !.resultNil = FALSE,
                              !.descriptors = IF r.entities = <<>> THEN {}
                                              ELSE {"properties"} \cup stat]
          [] r.collector = "hosts" ->
               IF r.discovery = "failed"
               THEN [r EXCEPT !.pc = "collect", !.resultNil = TRUE]
               ELSE [r EXCEPT !.pc = "collect", !.resultNil = FALSE,
                              !.descriptors = IF r.entities = <<>> THEN {}
                                              ELSE {"properties", "field"} \cup stat]
          [] r.collector = "cluster" ->
               IF r.discovery = "failed"
               THEN [r EXCEPT !.pc = "collect", !.resultNil = TRUE]
               ELSE [r EXCEPT !.pc = "collect", !.resultNil = FALSE,
                              !.descriptors = IF r.entities[1].hasUUID
                                              THEN {"properties", "field"} \cup stat
                                              ELSE {}]
          [] OTHER ->
               [r EXCEPT !.pc = "collect", !.descriptors = {"count", "field"}]

\* Collect up to its loop over the entities: nothing to do without a result, an
\* incomplete cluster object is skipped, snapshots performs its request here
CollectBegin(r) ==
    LET loop == IF r.entities = <<>> THEN "returned" ELSE "loop"
    IN  CASE r.collector = "storage_containers" ->
               [r EXCEPT !.pc = IF r.resultNil THEN "returned" ELSE loop]
          [] r.collector = "hosts" ->
               [r EXCEPT !.pc = IF r.resultNil THEN "returned" ELSE loop]
          [] r.collector = "cluster" ->
               [r EXCEPT !.pc = IF r.resultNil \/ ~r.entities[1].hasUUID THEN "returned" ELSE loop]
          [] OTHER ->
               IF r.discovery = "failed"
               THEN [r EXCEPT !.pc = "returned"]
               ELSE [r EXCEPT !.pc = loop, !.resultNil = FALSE,
                              !.emitted = @ \cup {<<0, "count">>}]

\* one iteration of Collect's loop, on entity i: what is emitted before the uuid is
\* read through an unchecked type assertion, and whether that assertion is reached
CollectEntity(r) ==
    LET ent    == r.entities[r.i]
        next   == IF r.i = Len(r.entities) THEN "returned" ELSE "loop"
        before == CASE r.collector \in {"storage_containers", "hosts", "cluster"} ->
                         {<<r.i, "properties">>}
                    [] OTHER -> {}
        reads  == CASE r.collector = "storage_containers" -> ent.hasStats
                    [] OTHER -> TRUE
        after  == (IF ent.hasStats /\ r.collector # "snapshots" THEN {<<r.i, "stat">>} ELSE {})
                  \cup (IF r.collector # "storage_containers" THEN {<<r.i, "field">>} ELSE {})
    IN  IF reads /\ ~ent.hasUUID
        THEN [r EXCEPT !.pc = "panicked", !.emitted = @ \cup before]
        ELSE [r EXCEPT !.pc = next, !.i = @ + 1, !.emitted = @ \cup before \cup after]

-----------------------------------------------------------------------------
(* Stat values and their conversion (paging.go 181-194, nutanix.go 319-349) *)

\* float64 values are held in tenths, so that 42.5 is the integer 425
Tenths == 10
Whole(n) == n * Tenths

\* the value the collectors compare a converted stat with before emitting it
\* (`if val == -1 { continue }`)
STAT_UNAVAILABLE == Whole(-1)

\* a Go interface{} value: nil, a float64, an int, a string or a bool
Nil          == [type |-> "nil",     f |-> 0, s |-> ""]
Float64(x)   == [type |-> "float64", f |-> x, s |-> ""]
GoInt(n)     == [type |-> "int",     f |-> Whole(n), s |-> ""]
GoString(t)  == [type |-> "string",  f |-> 0, s |-> t]
GoBool       == [type |-> "bool",    f |-> 0, s |-> "true"]

NumericStrings == {"42.5", "100", "-1"}
OtherStrings   == {"abc", ""}

\* strconv.ParseFloat(s, 64): the parsed value, or 0 and an error
ParseFloat(s) ==
    CASE s = "42.5" -> [f |-> 425, err |-> FALSE]
      [] s = "100"  -> [f |-> Whole(100), err |-> FALSE]
      [] s = "-1"   -> [f |-> Whole(-1), err |-> FALSE]
      [] OTHER      -> [f |-> 0, err |-> TRUE]

\* nutanixExporter.valueToFloat64, the conversion every collector calls: a float64 as
\* it is, a string through ParseFloat with the error dropped, anything else the zero
\* value of `var v float64`
valueToFloat64(value) ==
    CASE value.type = "float64" -> value.f
      [] value.type = "string"  -> ParseFloat(value.s).f
      [] OTHER                  -> 0

\* Nutanix.valueToFloat64, the client's conversion: nil is 0.0, the numeric types are
\* converted, a string is parsed (0.0 when it does not parse), anything else is 0.0
Nutanix_valueToFloat64(value) ==
    CASE value.type = "nil"     -> 0
      [] value.type = "float64" -> value.f
      [] value.type = "int"     -> value.f
      [] value.type = "string"  -> IF ParseFloat(value.s).err THEN 0 ELSE ParseFloat(value.s).f
      [] OTHER                  -> 0

Converters == {"nutanixExporter", "Nutanix"}

ConvertWith(fn, value) ==
    IF fn = "Nutanix" THEN Nutanix_valueToFloat64(value) ELSE valueToFloat64(value)

\* the values handed to the conversions
GoValues ==
    {Nil, GoBool}
    \cup {Float64(x) : x \in {Whole(-5), 0, 425, Whole(100)}}
    \cup {GoInt(n) : n \in {0, 7}}
    \cup {GoString(t) : t \in NumericStrings \cup OtherStrings}

\* one application of a conversion: its argument, and its result once it returned
NewConv(fn, value) == [fn |-> fn, value |-> value, pc |-> "call", out |-> 0]
IdleConv == [NewConv("nutanixExporter", Nil) EXCEPT !.pc = "idle"]

-----------------------------------------------------------------------------
(* Stats of one entity: allow-list, calculated stats, Describe and Collect
   (cluster.go, hosts.go, storage_containers.go, vms.go 346-585) *)

StatCollectors == {"cluster", "hosts", "storage_containers", "virtual_disks"}

METRIC_TOTAL_WRITE_IO_SIZE == "controller_total_write_io_size_kbytes"
METRIC_TOTAL_USAGE_BYTES   == "controller.storage_tier.total.usage_bytes"
METRIC_MEM_USAGE_BYTES     == "memory_usage_bytes"
METRIC_MEM_FREE_BYTES      == "memory_free_bytes"
KEY_PROPERTIES             == "properties"

TOTAL_IO_SIZE == "controller_total_io_size_kbytes"
READ_IO_SIZE  == "controller_total_read_io_size_kbytes"

\* the keys an upstream puts in an entity's stats and usage_stats members
StatsKeys      == {TOTAL_IO_SIZE, READ_IO_SIZE, "controller_num_read_io", "controller_num_iops"}
UsageStatsKeys == {"storage.usage_bytes", "storage.user_unreserved_capacity_bytes"}

\* filter_stats of each collector, restricted to the keys above and the calculated ones
filter_stats(c) ==
    CASE c = "cluster" ->
           {"storage.usage_bytes", READ_IO_SIZE, TOTAL_IO_SIZE, "controller_num_read_io",
            METRIC_TOTAL_WRITE_IO_SIZE}
      [] c = "hosts" ->
           {"storage.usage_bytes", READ_IO_SIZE, TOTAL_IO_SIZE, "controller_num_read_io",
            METRIC_TOTAL_WRITE_IO_SIZE, METRIC_MEM_USAGE_BYTES, METRIC_MEM_FREE_BYTES}
      [] c = "storage_containers" ->
           {"storage.usage_bytes", READ_IO_SIZE, TOTAL_IO_SIZE, METRIC_TOTAL_WRITE_IO_SIZE}
      [] c = "virtual_disks" ->
           {READ_IO_SIZE, TOTAL_IO_SIZE, "controller_num_read_io",
            METRIC_TOTAL_WRITE_IO_SIZE, METRIC_TOTAL_USAGE_BYTES}

\* the fields every entity gets a gauge for
fields(c) ==
    CASE c = "cluster" -> {"num_nodes"}
      [] c = "hosts" -> {"num_vms", "num_cpu_cores", "num_cpu_sockets", "num_cpu_threads",
                         "cpu_frequency_in_hz", "cpu_capacity_in_hz",
                         "memory_capacity_in_bytes", "boot_time_in_usecs"}
      [] c = "storage_containers" -> {}
      [] c = "virtual_disks" -> {"disk_capacity_in_bytes"}

\* strings.Replace of "." and "-" by "_" and strings.ToLower, on the keys above
normalizeKey(key) ==
    CASE key = "storage.usage_bytes" -> "storage_usage_bytes"
      [] key = "storage.user_unreserved_capacity_bytes" -> "storage_user_unreserved_capacity_bytes"
      [] key = METRIC_TOTAL_USAGE_BYTES -> "controller_storage_tier_total_usage_bytes"
      [] OTHER -> key

\* the converted value of a stat the calculation reads: 0 when the key is absent, and
\* in the collectors that guard with `if v > 0` 0 unless the value is positive
StatOperand(stats, key, floored) ==
    IF key \notin DOMAIN stats THEN 0
    ELSE LET v == valueToFloat64(stats[key])
         IN  IF floored /\ ~(v > 0) THEN 0 ELSE v

\* addCalculatedStats: the write I/O size is total - read, stored under
\* METRIC_TOTAL_WRITE_IO_SIZE; hosts, storage containers and virtual disks take an
\* operand only when it is positive, the cluster collector takes it as converted.
\* The hosts collector adds the memory stats and the virtual disks collector the
\* total tier usage; the members those read are absent from the modelled entity, so
\* they are 0.
addCalculatedStats(c, stats) ==
    LET floored    == c # "cluster"
        total_size == StatOperand(stats, TOTAL_IO_SIZE, floored)
        read_size  == StatOperand(stats, READ_IO_SIZE, floored)
        write      == (METRIC_TOTAL_WRITE_IO_SIZE :> Float64(total_size - read_size))
        others     == CASE c = "hosts" ->
                             (METRIC_MEM_USAGE_BYTES :> Float64(0))
                             @@ (METRIC_MEM_FREE_BYTES :> Float64(0))
                        [] c = "virtual_disks" -> (METRIC_TOTAL_USAGE_BYTES :> Float64(0))
                        [] OTHER -> <<>>
    IN  write @@ others @@ stats

\* the values an upstream reports for the two operands of the write I/O size, and for
\* the other keys
TotalValues == {Float64(Whole(100)), Nil, GoString("abc")}
ReadValues  == {Float64(Whole(40)), Float64(Whole(-5)), GoString("42.5")}
OtherValues == {Float64(Whole(7))}

ValuesOf(key) ==
    CASE key = TOTAL_IO_SIZE -> TotalValues
      [] key = READ_IO_SIZE  -> ReadValues
      [] OTHER               -> OtherValues

\* every map from a subset of the keys to the values of each key
StatMaps(keys) ==
    UNION {{m \in [d -> UNION {ValuesOf(k) : k \in d}] : \A k \in d : m[k] \in ValuesOf(k)} :
           d \in SUBSET keys}

\* a discovery response: failed, a document without the entity, or a document with
\* one entity, each of whose stat members is absent or a map
Responses ==
    {r \in [ok : {TRUE}, hasEntity : {TRUE},
            hasUsage : BOOLEAN, usage_stats : StatMaps(UsageStatsKeys),
            hasStats : BOOLEAN, stats : StatMaps(StatsKeys)] :
        /\ ~r.hasUsage => r.usage_stats = <<>>
        /\ ~r.hasStats => r.stats = <<>>}
FailedResponse ==
    [ok |-> FALSE, hasEntity |-> FALSE, hasUsage |-> FALSE, usage_stats |-> <<>>,
     hasStats |-> FALSE, stats |-> <<>>]
EmptyResponse == [FailedResponse EXCEPT !.ok = TRUE]

\* the responses a later discovery of the same instance is given: a failure, a
\* document without the entity, and an entity reporting a single stat
FewerKeysResponse ==
    [EmptyResponse EXCEPT !.hasEntity = TRUE, !.hasStats = TRUE,
                          !.stats = (TOTAL_IO_SIZE :> Float64(Whole(100)))]
LaterResponses == {FailedResponse, EmptyResponse, FewerKeysResponse}

\* e.result: nil, or the decoded document
NilResult ==
    [isNil |-> TRUE, hasEntity |-> FALSE, hasUsage |-> FALSE, usage_stats |-> <<>>,
     hasStats |-> FALSE, stats |-> <<>>]
ResultOf(response) ==
    [isNil |-> FALSE, hasEntity |-> response.hasEntity,
     hasUsage |-> response.hasUsage, usage_stats |-> response.usage_stats,
     hasStats |-> response.hasStats, stats |-> response.stats]

\* json Decode into e.result: a nil map is allocated, a map that exists is reused and
\* keeps the members the document does not carry. The entity collectors' document
\* has the one member "entities" (replaced as a whole when present); the cluster's
\* document is the entity itself, so its properties and its two stat members are
\* replaced one by one.
Decode(c, old, response) ==
    IF old.isNil THEN ResultOf(response)
    ELSE IF c = "cluster"
         THEN [ isNil       |-> FALSE,
                hasEntity   |-> old.hasEntity \/ response.hasEntity,
                hasUsage    |-> old.hasUsage \/ response.hasUsage,
                usage_stats |-> IF response.hasUsage THEN response.usage_stats
                                ELSE old.usage_stats,
                hasStats    |-> old.hasStats \/ response.hasStats,
                stats       |-> IF response.hasStats THEN response.stats ELSE old.stats ]
         ELSE IF response.hasEntity THEN ResultOf(response) ELSE old

\* a collector instance as its constructor returns it
NewStats(c) ==
    [ collector |-> c,
      pc        |-> "ready",
      describes |-> 0,
      response  |-> FailedResponse,   \* the response of the last discovery
      metrics   |-> {},               \* keys of e.metrics
      result    |-> NilResult,        \* e.result
      described |-> {},               \* keys of the descriptors the last Describe sent
      emitted   |-> {} ]              \* <<key, value>> of the gauges the last Collect sent
IdleStats == [NewStats("hosts") EXCEPT !.pc = "idle"]

Allowed_NoFilter(c, stats) == {normalizeKey(key) : key \in DOMAIN stats}

\* the keys of a stat map that pass the allow-list, normalised
Allowed(c, stats) == {normalizeKey(key) : key \in {k \in DOMAIN stats : k \in filter_stats(c)}}

\* Describe of the cluster, hosts, storage containers and virtual disks collectors on
\* a discovery response. The storage containers collector drops the request's error
\* and dereferences the nil response; the others set e.result = nil and return.
DescribeStats(s, response) ==
    LET c == s.collector
        begun == [s EXCEPT !.response = response, !.describes = @ + 1,
                           !.described = {}, !.emitted = {}]
    IN  IF ~response.ok
        THEN IF c = "storage_containers"
             THEN [begun EXCEPT !.pc = "panicked"]
             ELSE [begun EXCEPT !.pc = "described", !.result = NilResult]
        ELSE LET decoded == Decode(c, s.result, response)
             IN  IF ~decoded.hasEntity
                 THEN [begun EXCEPT !.pc = "described", !.result = decoded]
                 ELSE LET stats == IF decoded.hasStats
                                   THEN addCalculatedStats(c, decoded.stats)
                                   ELSE decoded.stats
                          usage == IF c = "virtual_disks" THEN <<>> ELSE decoded.usage_stats
                          keys  == {KEY_PROPERTIES} \cup Allowed(c, usage)
                                   \cup Allowed(c, stats) \cup fields(c)
                      IN  [begun EXCEPT !.pc = "described",
                                        !.result = [decoded EXCEPT !.stats = stats],
                                        !.metrics = @ \cup keys,
                                        !.described = keys]

\* the gauges of a stat map: allow-listed keys whose converted value is not -1
Gauges(c, stats) ==
    {<<normalizeKey(key), valueToFloat64(stats[key])>> :
        key \in {k \in DOMAIN stats : /\ k \in filter_stats(c)
                                      /\ valueToFloat64(stats[k]) # STAT_UNAVAILABLE}}

\* Collect on the stored result: nothing for a nil result or a document without the
\* entity; otherwise the properties gauge, the allow-listed usage_stats and stats,
\* and the fields (absent from the modelled entity, so converted from nil)
CollectStats(s) ==
    LET c == s.collector
        r == s.result
    IN  IF r.isNil \/ ~r.hasEntity
        THEN [s EXCEPT !.pc = "ready", !.emitted = {}]
        ELSE LET stats == IF c = "cluster" /\ r.hasStats
                          THEN addCalculatedStats(c, r.stats) ELSE r.stats
                 usage == IF c = "virtual_disks" THEN <<>> ELSE r.usage_stats
             IN  [s EXCEPT !.pc = "ready",
                           !.result = [r EXCEPT !.stats = stats],
                           !.emitted = {<<KEY_PROPERTIES, Whole(1)>>}
                                       \cup Gauges(c, usage) \cup Gauges(c, stats)
                                       \cup {<<key, valueToFloat64(Nil)>> : key \in fields(c)}]

-----------------------------------------------------------------------------
(* DescribeNicsParallel of the hosts and VMs collectors (hosts.go 310-325,
   vms.go 329-344) and the client's parallelism limit (nutanix.go 401-413) *)

MAX_PARALLEL_REQUESTS_DEFAULT == 10

\* max_parallel_requests as configured for a section (0 when the section has none)
ConfiguredParallel == {-1, 0, 1, 2}

\* NewNutanix: the client's maxParallelRequests
NewNutanix(maxParallelReq) ==
    IF maxParallelReq <= 0 THEN MAX_PARALLEL_REQUESTS_DEFAULT ELSE maxParallelReq

NicParents == {"hosts", "vms"}
SubCollectors == 1..NumNics

\* one DescribeNicsParallel call over n network sub-collectors: the caller's position,
\* the WaitGroup counter, the tokens in the semaphore channel, and the position of the
\* goroutine of each sub-collector
NewNics(parent, maxParallelReq, n) ==
    [ parent              |-> parent,
      configured          |-> maxParallelReq,
      maxParallelRequests |-> NewNutanix(maxParallelReq),
      n                   |-> n,
      pc                  |-> "spawn",
      spawned             |-> 0,
      wg                  |-> 0,
      semaphore           |-> 0,
      g                   |-> [i \in 1..n |-> "unspawned"] ]
IdleNics == [NewNics("hosts", 0, 0) EXCEPT !.pc = "idle"]

-----------------------------------------------------------------------------
(* Locks of the health tracker (exporter_health.go 36-51, 93-137, 140-201):
   healthMu guards the map, each record's mu guards its fields *)

LockSections == {"s1", "s2"}
LockWorkers  == 1..NumLockWorkers
Ticker       == NumLockWorkers + 1
LockOps      == {"mark", "collect"}

\* a sync.RWMutex: the writer that has announced itself (it holds the mutex's inner
\* writer lock), whether the readers have drained so that it holds the lock, and the
\* readers holding it
FreeRW == [w |-> NoHolder, held |-> FALSE, readers |-> {}]

\* Lock first takes the inner writer lock and announces the writer, ...
CanAnnounce(rw) == rw.w = NoHolder
Announce(rw, p) == [rw EXCEPT !.w = p]
\* ... then waits until the readers that hold the lock have left
CanAcquire(rw, p) == rw.w = p /\ ~rw.held /\ rw.readers = {}
Acquire(rw) == [rw EXCEPT !.held = TRUE]
Unlock(rw) == [rw EXCEPT !.w = NoHolder, !.held = FALSE]
\* RLock waits while a writer holds the lock or has announced itself
CanRLock(rw) == rw.w = NoHolder
RLock(rw, p) == [rw EXCEPT !.readers = @ \cup {p}]
RUnlock(rw, p) == [rw EXCEPT !.readers = @ \ {p}]

\* a goroutine calling one tracker operation on a section: "mark" is any of
\* MarkCollectionStart/End, MarkCmdSuccess/Failure and Inc*, "collect" is
\* ExporterHealthCollector.Collect; the ticker goroutine ranges over the map
NewLockProc(op, section) ==
    [op |-> op, section |-> section, pc |-> "getHealth", sends |-> 0, todo |-> {}]
TickerProc ==
    [op |-> "tick", section |-> "", pc |-> "sleep", sends |-> 0, todo |-> {}]

NewLocks(procs) ==
    [ healthMu |-> FreeRW,
      mu       |-> [s \in LockSections |-> FreeRW],
      records  |-> {},                 \* the keys of healthBySection
      ticks    |-> 0,
      p        |-> procs ]
IdleLocks ==
    NewLocks([i \in LockWorkers \cup {Ticker} |->
                 IF i = Ticker THEN [TickerProc EXCEPT !.pc = "stopped"]
                 ELSE [NewLockProc("mark", "s1") EXCEPT !.pc = "done"]])

-----------------------------------------------------------------------------
(* Initial state *)

NoCall == [op |-> "none", section |-> "", success |-> FALSE, d |-> 0, ret |-> FALSE, outcome |-> ""]

Call(op, section, success, d, ret, outcome) ==
    [op |-> op, section |-> section, success |-> success, d |-> d, ret |-> ret, outcome |-> outcome]

Requests == 1..NumRequests

\* starts: results of MarkCollectionStart since the last MarkCollectionEnd;
\* ends: number of MarkCollectionEnd calls; cmdSuccessUS / cmdFailureUS: microseconds
\* passed to MarkCmdSuccess / MarkCmdFailure since the last accepted MarkCollectionStart
NoHistory == [starts |-> <<>>, ends |-> 0, cmdSuccessUS |-> 0, cmdFailureUS |-> 0]

IdleRequest ==
    [ pc                |-> "idle",
      section           |-> "",
      healthOnly        |-> FALSE,
      ok                |-> FALSE,
      healthSectionKey  |-> "",
      started           |-> FALSE,
      collectionSuccess |-> FALSE,
      healthUUID        |-> "",
      clusterUUID       |-> "",
      nutanixAPI        |-> <<"nil", "">>,
      registered        |-> {},
      upstream          |-> 0,
      endCalls          |-> 0,
      written           |-> FALSE,
      response          |-> {} ]

Init ==
    /\ healthBySection = <<>>
    /\ lastCall = NoCall
    /\ hist = [s \in HealthSections |-> NoHistory]
    /\ calls = 0
    /\ clusterUUIDCache = <<>>
    /\ nutanixURL = ""
    /\ req = [r \in Requests |-> IdleRequest]
    /\ pager = IdlePager
    /\ gor = [g \in Goroutines |-> IdleGoroutine]
    /\ mu = NoHolder
    /\ lk = IdleLocks
    /\ nics = IdleNics
    /\ run = IdleRun
    /\ conv = IdleConv
    /\ sc = IdleStats

-----------------------------------------------------------------------------
(* SpecHealth: direct calls of the exported helpers *)

ApiMarkCollectionStart(s) ==
    /\ calls < MaxCalls
    /\ Len(hist[s].starts) < MaxStartLog
    /\ LET m   == getHealth(healthBySection, s)
           res == MarkCollectionStart(m[s])
       IN  /\ healthBySection' = [m EXCEPT ![s] = res.h]
           /\ hist' = [hist EXCEPT ![s].starts = Append(@, res.ret),
                                    ![s].cmdSuccessUS = IF res.ret THEN 0 ELSE @,
                                    ![s].cmdFailureUS = IF res.ret THEN 0 ELSE @]
           /\ lastCall' = Call("MarkCollectionStart", s, FALSE, 0, res.ret, "")
    /\ calls' = calls + 1
    /\ UNCHANGED handlerVars
    /\ UNCHANGED componentVars

ApiMarkCollectionEnd(s, success, d) ==
    /\ calls < MaxCalls
    /\ LET m == getHealth(healthBySection, s)
       IN  healthBySection' = [m EXCEPT ![s] = MarkCollectionEnd(m[s], success, d)]
    /\ hist' = [hist EXCEPT ![s].starts = <<>>, ![s].ends = @ + 1]
    /\ lastCall' = Call("MarkCollectionEnd", s, success, d, FALSE, "")
    /\ calls' = calls + 1
    /\ UNCHANGED handlerVars
    /\ UNCHANGED componentVars

ApiMarkCmdSuccess(s, d) ==
    /\ calls < MaxCalls
    /\ LET m == getHealth(healthBySection, s)
       IN  healthBySection' = [m EXCEPT ![s] = MarkCmdSuccess(m[s], d)]
    /\ lastCall' = Call("MarkCmdSuccess", s, FALSE, d, FALSE, "")
    /\ hist' = [hist EXCEPT ![s].cmdSuccessUS = @ + (d \div 1000)]
    /\ calls' = calls + 1
    /\ UNCHANGED handlerVars
    /\ UNCHANGED componentVars

ApiMarkCmdFailure(s, d) ==
    /\ calls < MaxCalls
    /\ LET m == getHealth(healthBySection, s)
       IN  healthBySection' = [m EXCEPT ![s] = MarkCmdFailure(m[s], d)]
    /\ lastCall' = Call("MarkCmdFailure", s, FALSE, d, FALSE, "")
    /\ hist' = [hist EXCEPT ![s].cmdFailureUS = @ + (d \div 1000)]
    /\ calls' = calls + 1
    /\ UNCHANGED handlerVars
    /\ UNCHANGED componentVars

ApiIncConnTimeout(s) ==
    /\ calls < MaxCalls
    /\ LET m == getHealth(healthBySection, s)
       IN  healthBySection' = [m EXCEPT ![s] = IncConnTimeout(m[s])]
    /\ lastCall' = Call("IncConnTimeout", s, FALSE, 0, FALSE, "")
    /\ calls' = calls + 1
    /\ UNCHANGED <<hist, handlerVars>>
    /\ UNCHANGED componentVars

ApiIncDNSFailure(s) ==
    /\ calls < MaxCalls
    /\ LET m == getHealth(healthBySection, s)
       IN  healthBySection' = [m EXCEPT ![s] = IncDNSFailure(m[s])]
    /\ lastCall' = Call("IncDNSFailure", s, FALSE, 0, FALSE, "")
    /\ calls' = calls + 1
    /\ UNCHANGED <<hist, handlerVars>>
    /\ UNCHANGED componentVars

ApiIncException(s) ==
    /\ calls < MaxCalls
    /\ LET m == getHealth(healthBySection, s)
       IN  healthBySection' = [m EXCEPT ![s] = IncException(m[s])]
    /\ lastCall' = Call("IncException", s, FALSE, 0, FALSE, "")
    /\ calls' = calls + 1
    /\ UNCHANGED <<hist, handlerVars>>
    /\ UNCHANGED componentVars

\* a client whose url is s performs one request (the client's tests address the
\* tracker by the client url)
ApiRequest(s, outcome) ==
    /\ calls < MaxCalls
    /\ LET res == makeRequestWithParams(healthBySection, s, outcome)
       IN  /\ healthBySection' = res.hb
           /\ lastCall' = Call("makeRequestWithParams", s, FALSE, 0, res.err, outcome)
    /\ calls' = calls + 1
    /\ UNCHANGED <<hist, handlerVars>>
    /\ UNCHANGED componentVars

NextHealth ==
    \/ \E s \in HealthSections : ApiMarkCollectionStart(s)
    \/ \E s \in HealthSections, success \in BOOLEAN, d \in Durations : ApiMarkCollectionEnd(s, success, d)
    \/ \E s \in HealthSections, d \in Durations : ApiMarkCmdSuccess(s, d)
    \/ \E s \in HealthSections, d \in Durations : ApiMarkCmdFailure(s, d)
    \/ \E s \in HealthSections : ApiIncConnTimeout(s)
    \/ \E s \in HealthSections : ApiIncDNSFailure(s)
    \/ \E s \in HealthSections : ApiIncException(s)
    \/ \E s \in HealthSections, o \in RequestOutcomes : ApiRequest(s, o)

SpecHealth == Init /\ [][NextHealth]_vars

-----------------------------------------------------------------------------
(* Health collector *)

\* metric name -> ExporterHealth field, as emitted by ExporterHealthCollector.Collect
HealthMetrics ==
    { <<"nutanix_exporter_ErrorPCNoDataConnectionTimeout_C", "errConnTimeout">>,
      <<"nutanix_exporter_ErrorPCNoDataCollectionStillRunning_C", "errCollectionStillRunning">>,
      <<"nutanix_exporter_ErrorPCNoDataException_C", "errException">>,
      <<"nutanix_exporter_ErrorPCNoDataDNSLookupFailure_C", "errDNSFailure">>,
      <<"nutanix_exporter_SuccessDeviceCommand_C", "successDeviceCmd">>,
      <<"nutanix_exporter_TotalSuccessDeviceCmdExecDuration_US", "totalSuccessCmdExecDurationUS">>,
      <<"nutanix_exporter_TotalSuccessDeviceCollectionDuration_US", "totalSuccessCollectionDurationUS">>,
      <<"nutanix_exporter_FailureDeviceCommand_C", "failureDeviceCmd">>,
      <<"nutanix_exporter_TotalFailureDeviceCmdExecDuration_US", "totalFailureCmdExecDurationUS">>,
      <<"nutanix_exporter_TotalFailureDeviceCollectionDuration_US", "totalFailureCollectionDurationUS">>,
      <<"nutanix_exporter_TotalPollCycles_C", "totalPollCycles">>,
      <<"nutanix_exporter_SuccessfulPCCallNoErrors_C", "successfulPCCallNoErrors">>,
      <<"nutanix_exporter_FailedCollections_C", "failedCollections">> }

HealthMetricNames == {m[1] : m \in HealthMetrics}

NewExporterHealthCollector(section, uuid, clusterUUID) ==
    [section |-> section, uuid |-> uuid, clusterUUID |-> clusterUUID]

\* ExporterHealthCollector.Collect: the tracker map after getHealth and the emitted series
ExporterHealthCollector_Collect(c, hb) ==
    LET m == getHealth(hb, c.section)
        h == m[c.section]
    IN  [ hb     |-> m,
          series |-> { [ name         |-> x[1],
                         value        |-> h[x[2]],
                         cluster_uuid |-> c.clusterUUID,
                         uuid         |-> c.uuid,
                         section      |-> c.section ] : x \in HealthMetrics } ]

-----------------------------------------------------------------------------
(* main.go: configuration and the /metrics handler *)

\* values of the section query parameter sent by scrapers ("" when absent)
SectionParams == {"", "a", "b"}

\* time since the scrape began, as measured by the deferred call (nanoseconds)
ScrapeDurations == {1500}

\* outcomes of the upstream requests issued during a scrape
ScrapeOutcomes == {"ok", "timeout"}

\* values of the health query parameter
HealthParams == {"true", "false"}

\* the loaded configuration: section name -> cluster record
Config ==
    [ k \in {"a", "b"} |->
        IF k = "a"
        THEN [ Host    |-> "https://a:9440",
               Collect |-> [ f \in {"storage_containers", "hosts", "vms", "virtual_disks"} |-> FALSE ] ]
        ELSE [ Host    |-> "https://b:9440",
               Collect |-> [ f \in {"storage_containers", "cluster", "vms", "snapshots", "virtual_disks"}
                               |-> FALSE ] ] ]

\* checkCollect: a feature is collected unless the configuration switches it off
checkCollect(c, f) == (f \notin DOMAIN c) \/ c[f]

\* the order in which the handler registers the entity collectors
RegistrationOrder == <<"storage_containers", "hosts", "cluster", "vms", "snapshots", "virtual_disks">>

\* collectors whose Describe performs the discovery request (snapshots fetch in Collect)
DescribeFetches == {"hosts", "cluster"}

\* what a collector's Describe does at registration: descriptors sent, discovery failed
\* (nothing sent), or a failed type assertion on the decoded document (panic)
DescribeOutcomes == {"ok", "failed", "panic"}

\* the uuid the cluster behind url reports
ClusterUUIDAt(url) ==
    CASE url = "https://a:9440" -> "uuid-a"
      [] url = "https://b:9440" -> "uuid-b"
      [] OTHER -> "uuid-other"

\* Nutanix.GetClusterUUID: one request to the cluster endpoint; the uuid or an error
GetClusterUUID(hb, url, outcome) ==
    LET res == makeRequestWithParams(hb, url, outcome)
    IN  [ hb |-> res.hb, err |-> res.err, uuid |-> IF res.err THEN "" ELSE ClusterUUIDAt(url) ]

\* lines 96-150: read the query, resolve the section, choose the tracker key
\* (requests are numbered in their order of arrival)
HandlerBegin(r, sectionParam, healthParam) ==
    /\ req[r].pc = "idle"
    /\ \A earlier \in Requests : earlier < r => req[earlier].pc # "idle"
    /\ LET section == IF sectionParam = "" THEN "default" ELSE sectionParam
           ok      == section \in DOMAIN Config
           key     == IF ok THEN Config[section].Host ELSE section
       IN  /\ req' = [req EXCEPT ![r].pc = "start",
                                 ![r].section = section,
                                 ![r].healthOnly = (healthParam = "true"),
                                 ![r].ok = ok,
                                 ![r].healthSectionKey = key]
           /\ nutanixURL' = IF ok THEN Config[section].Host ELSE nutanixURL
    /\ UNCHANGED <<lastCall, healthBySection, hist, calls, clusterUUIDCache>>
    /\ UNCHANGED componentVars

LookupUUID_NoCache(q, cache) ==
    IF ~q.healthOnly /\ q.ok
    THEN [q EXCEPT !.pc = "fetch"]
    ELSE IF ~q.healthOnly
         THEN [q EXCEPT !.pc = "health",
                        !.healthUUID = q.section,
                        !.clusterUUID = q.section]
         ELSE [q EXCEPT !.pc = "health",
                        !.healthUUID = "exporter-health",
                        !.clusterUUID = "exporter-health"]

\* lines 169-186 and 205-209: the uuid labels of an accepted scrape, from the cache
\* when possible; a configured section with no cached uuid has to ask the cluster
LookupUUID(q, cache) ==
    IF ~q.healthOnly /\ q.ok
    THEN IF q.section \in DOMAIN cache
         THEN [q EXCEPT !.pc = "health",
                        !.healthUUID = cache[q.section],
                        !.clusterUUID = cache[q.section]]
         ELSE [q EXCEPT !.pc = "fetch"]
    ELSE IF ~q.healthOnly
         THEN [q EXCEPT !.pc = "health",
                        !.healthUUID = q.section,
                        !.clusterUUID = q.section]
         ELSE [q EXCEPT !.pc = "health",
                        !.healthUUID = "exporter-health",
                        !.clusterUUID = "exporter-health"]

HandlerStart_IgnoreOverlap(r) ==
    /\ req[r].pc = "start"
    /\ LET key == req[r].healthSectionKey
           m   == getHealth(healthBySection, key)
           res == MarkCollectionStart(m[key])
       IN  /\ healthBySection' = [m EXCEPT ![key] = res.h]
           /\ req' = [req EXCEPT ![r] = LookupUUID([req[r] EXCEPT !.started = res.ret,
                                                                  !.collectionSuccess = TRUE],
                                                   clusterUUIDCache)]
    /\ UNCHANGED <<lastCall, hist, calls, clusterUUIDCache, nutanixURL>>
    /\ UNCHANGED componentVars

HandlerStart_EndsRejected(r) ==
    /\ req[r].pc = "start"
    /\ LET key == req[r].healthSectionKey
           m   == getHealth(healthBySection, key)
           res == MarkCollectionStart(m[key])
       IN  /\ healthBySection' = [m EXCEPT ![key] = res.h]
           /\ req' = IF res.ret
                     THEN [req EXCEPT ![r] = LookupUUID([req[r] EXCEPT !.started = TRUE,
                                                                       !.collectionSuccess = TRUE],
                                                        clusterUUIDCache)]
                     ELSE [req EXCEPT ![r].pc = "end"]
    /\ UNCHANGED <<lastCall, hist, calls, clusterUUIDCache, nutanixURL>>
    /\ UNCHANGED componentVars

\* lines 152-186 and 205-209: MarkCollectionStart; a rejected scrape returns at once,
\* an accepted one chooses its uuid labels
HandlerStart(r) ==
    /\ req[r].pc = "start"
    /\ LET key == req[r].healthSectionKey
           m   == getHealth(healthBySection, key)
           res == MarkCollectionStart(m[key])
       IN  /\ healthBySection' = [m EXCEPT ![key] = res.h]
           /\ req' = IF res.ret
                     THEN [req EXCEPT ![r] = LookupUUID([req[r] EXCEPT !.started = TRUE,
                                                                       !.collectionSuccess = TRUE],
                                                        clusterUUIDCache)]
                     ELSE [req EXCEPT ![r].pc = "done"]
    /\ UNCHANGED <<lastCall, hist, calls, clusterUUIDCache, nutanixURL>>
    /\ UNCHANGED componentVars

\* lines 187-203: create the client from the global url, ask the cluster for its uuid,
\* cache it on success and fall back to the section name on failure
HandlerFetchUUID(r, outcome) ==
    /\ req[r].pc = "fetch"
    /\ LET q   == req[r]
           res == GetClusterUUID(healthBySection, nutanixURL, outcome)
       IN  /\ healthBySection' = res.hb
           /\ req' = [req EXCEPT ![r].pc = "health",
                                 ![r].nutanixAPI = <<"client", nutanixURL>>,
                                 ![r].upstream = @ + 1,
                                 ![r].healthUUID = IF res.err THEN q.section ELSE res.uuid,
                                 ![r].clusterUUID = IF res.err THEN q.section ELSE res.uuid]
           /\ clusterUUIDCache' =
                IF res.err
                THEN clusterUUIDCache
                ELSE [k \in (DOMAIN clusterUUIDCache) \cup {q.section} |->
                        IF k = q.section THEN res.uuid ELSE clusterUUIDCache[k]]
    /\ UNCHANGED <<lastCall, hist, calls, nutanixURL>>
    /\ UNCHANGED componentVars

\* the enabled collectors of a section, in registration order
EnabledCollectors(section) ==
    SelectSeq(RegistrationOrder, LAMBDA f : checkCollect(Config[section].Collect, f))

\* lines 210-269: register the health collector; serve it alone for a health-only
\* scrape or when no client can be created; otherwise make sure a client exists and
\* register the enabled collectors: MustRegister runs each one's Describe in turn, and
\* a panic in a Describe unwinds the handler (the deferred MarkCollectionEnd still runs)
HandlerRegister(r, outs) ==
    /\ req[r].pc = "health"
    /\ LET q        == req[r]
           c        == NewExporterHealthCollector(q.healthSectionKey, q.healthUUID, q.clusterUUID)
           out      == ExporterHealthCollector_Collect(c, healthBySection)
           alone    == q.healthOnly \/ (q.nutanixAPI[1] = "nil" /\ (~q.ok \/ nutanixURL = ""))
           enabled  == IF alone THEN <<>> ELSE EnabledCollectors(q.section)
           result(f) == IF f \in DescribeFetches THEN outs[f] ELSE "ok"
           panics   == {i \in 1..Len(enabled) : result(enabled[i]) = "panic"}
           stop     == IF panics = {} THEN Len(enabled) + 1
                       ELSE CHOOSE i \in panics : \A j \in panics : i <= j
           ran      == {enabled[i] : i \in {j \in 1..Len(enabled) : j <= stop}}
           done     == {enabled[i] : i \in {j \in 1..Len(enabled) : j < stop}}
           requests == Cardinality(ran \cap DescribeFetches)
       IN  /\ \A f \in DescribeFetches : f \notin ran => outs[f] = "ok"
           /\ IF alone
              THEN /\ healthBySection' = out.hb
                   /\ req' = [req EXCEPT ![r].pc = "end",
                                         ![r].registered = {<<"health", "ok">>},
                                         ![r].written = TRUE,
                                         ![r].response = out.series]
              ELSE /\ healthBySection' = healthBySection
                   /\ req' = [req EXCEPT ![r].pc = IF panics = {} THEN "serve" ELSE "end",
                                         ![r].registered = {<<"health", "ok">>}
                                                           \cup {<<f, result(f)>> : f \in done},
                                         ![r].upstream = @ + requests,
                                         ![r].nutanixAPI = IF q.nutanixAPI[1] = "nil"
                                                           THEN <<"client", nutanixURL>>
                                                           ELSE q.nutanixAPI]
    /\ UNCHANGED <<lastCall, hist, calls, clusterUUIDCache, nutanixURL>>
    /\ UNCHANGED componentVars

\* lines 271-281: gather and write the registered collectors' output; a panic while
\* serving is recovered and marks the collection failed
HandlerServe(r, serveOutcome, snapshotsOutcome) ==
    /\ req[r].pc = "serve"
    /\ LET q      == req[r]
           c      == NewExporterHealthCollector(q.healthSectionKey, q.healthUUID, q.clusterUUID)
           out    == ExporterHealthCollector_Collect(c, healthBySection)
           snaps  == <<"snapshots", "ok">> \in q.registered
           res    == makeRequestWithParams(out.hb, q.nutanixAPI[2], snapshotsOutcome)
           entity == { [ name |-> f[1], value |-> 1, cluster_uuid |-> "", uuid |-> "",
                         section |-> "" ] :
                       f \in { g \in q.registered :
                                 /\ g[1] # "health"
                                 /\ g[2] = "ok"
                                 /\ g[1] = "snapshots" => ~res.err } }
       IN  /\ ~snaps => snapshotsOutcome = "ok"
           /\ healthBySection' = IF snaps THEN res.hb ELSE out.hb
           /\ req' = IF serveOutcome = "panic"
                     THEN [req EXCEPT ![r].pc = "end",
                                      ![r].upstream = @ + (IF snaps THEN 1 ELSE 0),
                                      ![r].collectionSuccess = FALSE]
                     ELSE [req EXCEPT ![r].pc = "end",
                                      ![r].upstream = @ + (IF snaps THEN 1 ELSE 0),
                                      ![r].written = TRUE,
                                      ![r].response = out.series \cup entity]
    /\ UNCHANGED <<lastCall, hist, calls, clusterUUIDCache, nutanixURL>>
    /\ UNCHANGED componentVars

\* line 165-167: the deferred MarkCollectionEnd with the time since the scrape began
HandlerEnd(r, d) ==
    /\ req[r].pc = "end"
    /\ LET q == req[r]
           m == getHealth(healthBySection, q.healthSectionKey)
       IN  healthBySection' =
             [m EXCEPT ![q.healthSectionKey] = MarkCollectionEnd(@, q.collectionSuccess, d)]
    /\ req' = [req EXCEPT ![r].pc = "done", ![r].endCalls = @ + 1]
    /\ UNCHANGED <<lastCall, hist, calls, clusterUUIDCache, nutanixURL>>
    /\ UNCHANGED componentVars

Next ==
    \/ \E r \in Requests, s \in SectionParams, h \in HealthParams : HandlerBegin(r, s, h)
    \/ \E r \in Requests : HandlerStart(r)
    \/ \E r \in Requests, o \in ScrapeOutcomes : HandlerFetchUUID(r, o)
    \/ \E r \in Requests, outs \in [DescribeFetches -> DescribeOutcomes] : HandlerRegister(r, outs)
    \/ \E r \in Requests, so \in {"ok", "panic"}, o \in ScrapeOutcomes : HandlerServe(r, so, o)
    \/ \E r \in Requests, d \in ScrapeDurations : HandlerEnd(r, d)

Spec == Init /\ [][Next]_vars

-----------------------------------------------------------------------------
(* SpecPaging: one fetchAllPages call *)

InitPaging ==
    /\ healthBySection = <<>>
    /\ lastCall = NoCall
    /\ hist = [s \in HealthSections |-> NoHistory]
    /\ calls = 0
    /\ clusterUUIDCache = <<>>
    /\ nutanixURL = ""
    /\ req = [r \in Requests |-> IdleRequest]
    /\ pager \in {NewPager(u) : u \in Upstreams}
    /\ gor = [g \in Goroutines |-> IdleGoroutine]
    /\ mu = NoHolder
    /\ lk = IdleLocks
    /\ nics = IdleNics
    /\ run = IdleRun
    /\ conv = IdleConv
    /\ sc = IdleStats

PagingRequest ==
    /\ pager.pc = "request"
    /\ LET res == fetchAllPagesRequest(pager, healthBySection, PagingURL)
       IN  /\ pager' = res.pager
           /\ healthBySection' = res.hb
    /\ UNCHANGED <<lastCall, hist, calls, handlerVars, gor, mu, run, statVars, nics, lk>>

PagingDecode ==
    /\ pager.pc = "decode"
    /\ pager' = fetchAllPagesDecode(pager)
    /\ UNCHANGED <<healthBySection, lastCall, hist, calls, handlerVars, gor, mu, run, statVars, nics, lk>>

NextPaging == PagingRequest \/ PagingDecode

SpecPaging == InitPaging /\ [][NextPaging]_vars

-----------------------------------------------------------------------------
(* SpecConc: goroutines calling MarkCmdSuccess(ConcSection, d) *)

\* line 199: getHealth(section), under the map lock
GoCall(g, d) ==
    /\ gor[g].pc = "call"
    /\ healthBySection' = getHealth(healthBySection, ConcSection)
    /\ gor' = [gor EXCEPT ![g].pc = "lock", ![g].d = d]
    /\ UNCHANGED <<lastCall, hist, calls, handlerVars, pager, mu, run, statVars, nics, lk>>

GoLock_NoMutex(g) ==
    /\ gor[g].pc = "lock"
    /\ mu' = g
    /\ gor' = [gor EXCEPT ![g].pc = "load"]
    /\ UNCHANGED <<healthBySection, lastCall, hist, calls, handlerVars, pager, run, statVars, nics, lk>>

\* line 200: h.mu.Lock() waits until the mutex is free
GoLock(g) ==
    /\ gor[g].pc = "lock"
    /\ mu = NoHolder
    /\ lk = IdleLocks
    /\ nics = IdleNics
    /\ mu' = g
    /\ gor' = [gor EXCEPT ![g].pc = "load"]
    /\ UNCHANGED <<healthBySection, lastCall, hist, calls, handlerVars, pager, run, statVars, nics, lk>>

\* lines 201-202: the two fields are read ...
GoLoad(g) ==
    /\ gor[g].pc = "load"
    /\ gor' = [gor EXCEPT ![g].pc = "store", ![g].loaded = healthBySection[ConcSection]]
    /\ UNCHANGED <<healthBySection, lastCall, hist, calls, handlerVars, pager, mu, run, statVars, nics, lk>>

\* ... and written back incremented
GoStore(g) ==
    /\ gor[g].pc = "store"
    /\ LET new == MarkCmdSuccess(gor[g].loaded, gor[g].d)
       IN  healthBySection' =
             [healthBySection EXCEPT
                ![ConcSection].successDeviceCmd = new.successDeviceCmd,
                ![ConcSection].totalSuccessCmdExecDurationUS = new.totalSuccessCmdExecDurationUS]
    /\ gor' = [gor EXCEPT ![g].pc = "unlock"]
    /\ UNCHANGED <<lastCall, hist, calls, handlerVars, pager, mu, run, statVars, nics, lk>>

\* line 203: h.mu.Unlock(); the call returns
GoUnlock(g) ==
    /\ gor[g].pc = "unlock"
    /\ mu' = NoHolder
    /\ gor' = [gor EXCEPT ![g].pc = IF gor[g].left = 1 THEN "done" ELSE "call",
                          ![g].left = @ - 1,
                          ![g].passedUS = @ + (gor[g].d \div 1000)]
    /\ UNCHANGED <<healthBySection, lastCall, hist, calls, handlerVars, pager, run, statVars, nics, lk>>

NextConc ==
    \/ \E g \in Goroutines, d \in ConcDurations : GoCall(g, d)
    \/ \E g \in Goroutines : GoLock(g)
    \/ \E g \in Goroutines : GoLoad(g)
    \/ \E g \in Goroutines : GoStore(g)
    \/ \E g \in Goroutines : GoUnlock(g)

SpecConc == Init /\ [][NextConc]_vars

-----------------------------------------------------------------------------
(* SpecCollect: one collector is registered (Describe) and gathered (Collect) *)

InitCollect ==
    /\ healthBySection = <<>>
    /\ lastCall = NoCall
    /\ hist = [s \in HealthSections |-> NoHistory]
    /\ calls = 0
    /\ clusterUUIDCache = <<>>
    /\ nutanixURL = ""
    /\ req = [r \in Requests |-> IdleRequest]
    /\ pager = IdlePager
    /\ gor = [g \in Goroutines |-> IdleGoroutine]
    /\ mu = NoHolder
    /\ lk = IdleLocks
    /\ nics = IdleNics
    /\ run \in {NewRun(c, o, e) : c \in Collectors, o \in DiscoveryOutcomes, e \in EntityLists}
    /\ run.discovery = "failed" => run.entities = <<>>
    /\ run.collector = "cluster" => (run.discovery = "ok" <=> Len(run.entities) = 1)
    /\ conv = IdleConv
    /\ sc = IdleStats

CollectorDescribe ==
    /\ run.pc = "describe"
    /\ run' = Describe(run)
    /\ UNCHANGED <<healthBySection, lastCall, hist, calls, handlerVars, pager, gor, mu, statVars, nics, lk>>

CollectorCollectBegin ==
    /\ run.pc = "collect"
    /\ run' = CollectBegin(run)
    /\ UNCHANGED <<healthBySection, lastCall, hist, calls, handlerVars, pager, gor, mu, statVars, nics, lk>>

CollectorCollectEntity ==
    /\ run.pc = "loop"
    /\ run' = CollectEntity(run)
    /\ UNCHANGED <<healthBySection, lastCall, hist, calls, handlerVars, pager, gor, mu, statVars, nics, lk>>

NextCollect == CollectorDescribe \/ CollectorCollectBegin \/ CollectorCollectEntity

SpecCollect == InitCollect /\ [][NextCollect]_vars

-----------------------------------------------------------------------------
(* Stat conversion and derivation: either one conversion is applied to one value, or
   one collector instance Describes and Collects discovery responses. *)

\* number of Describe calls made on the instance
MaxDescribes == 2

InitStats ==
    /\ healthBySection = <<>>
    /\ lastCall = NoCall
    /\ hist = [s \in HealthSections |-> NoHistory]
    /\ calls = 0
    /\ clusterUUIDCache = <<>>
    /\ nutanixURL = ""
    /\ req = [r \in Requests |-> IdleRequest]
    /\ pager = IdlePager
    /\ gor = [g \in Goroutines |-> IdleGoroutine]
    /\ mu = NoHolder
    /\ lk = IdleLocks
    /\ nics = IdleNics
    /\ run = IdleRun
    /\ \/ /\ conv \in {NewConv(fn, v) : fn \in Converters, v \in GoValues}
          /\ sc = IdleStats
       \/ /\ conv = IdleConv
          /\ sc \in {NewStats(c) : c \in StatCollectors}

StatsConvert ==
    /\ conv.pc = "call"
    /\ conv' = [conv EXCEPT !.pc = "returned", !.out = ConvertWith(conv.fn, conv.value)]
    /\ UNCHANGED <<healthBySection, lastCall, hist, calls, handlerVars, pager, gor, mu, run, sc, nics, lk>>

\* the first discovery is given any response, a later one a failure, a document
\* without the entity, or an entity with fewer keys
StatsDescribe ==
    /\ sc.pc = "ready"
    /\ sc.describes < MaxDescribes
    /\ \E response \in IF sc.describes = 0
                        THEN Responses \cup {FailedResponse, EmptyResponse}
                        ELSE LaterResponses :
           sc' = DescribeStats(sc, response)
    /\ UNCHANGED <<healthBySection, lastCall, hist, calls, handlerVars, pager, gor, mu, run, conv, nics, lk>>

StatsCollect ==
    /\ sc.pc = "described"
    /\ sc' = CollectStats(sc)
    /\ UNCHANGED <<healthBySection, lastCall, hist, calls, handlerVars, pager, gor, mu, run, conv, nics, lk>>

NextStats == StatsConvert \/ StatsDescribe \/ StatsCollect

SpecStats == InitStats /\ [][NextStats]_vars

-----------------------------------------------------------------------------
(* DescribeNicsParallel: the caller starts one goroutine per sub-collector and waits
   for all of them; each goroutine takes a token, runs Describe, returns the token and
   signals the WaitGroup. *)

InitNics ==
    /\ healthBySection = <<>>
    /\ lastCall = NoCall
    /\ hist = [s \in HealthSections |-> NoHistory]
    /\ calls = 0
    /\ clusterUUIDCache = <<>>
    /\ nutanixURL = ""
    /\ req = [r \in Requests |-> IdleRequest]
    /\ pager = IdlePager
    /\ gor = [g \in Goroutines |-> IdleGoroutine]
    /\ mu = NoHolder
    /\ lk = IdleLocks
    /\ run = IdleRun
    /\ conv = IdleConv
    /\ sc = IdleStats
    /\ nics \in {NewNics(p, m, n) : p \in NicParents, m \in ConfiguredParallel, n \in 0..NumNics}

NicsUnchanged ==
    UNCHANGED <<healthBySection, lastCall, hist, calls, handlerVars, pager, gor, mu, run,
                statVars, lk>>

\* wg.Add(1); go func(...){...}(uuid, networkExporter) for the next sub-collector
NicsSpawn ==
    /\ nics.pc = "spawn"
    /\ nics.spawned < nics.n
    /\ nics' = [nics EXCEPT !.spawned = @ + 1, !.wg = @ + 1,
                            !.g[nics.spawned + 1] = "acquire"]
    /\ NicsUnchanged

NicsWait_NoBarrier ==
    /\ nics.pc = "spawn"
    /\ nics.spawned = nics.n
    /\ nics' = [nics EXCEPT !.pc = "returned"]
    /\ NicsUnchanged

\* wg.Wait() after the loop: returns once the counter is zero
NicsWait ==
    /\ nics.pc = "spawn"
    /\ nics.spawned = nics.n
    /\ nics.wg = 0
    /\ nics' = [nics EXCEPT !.pc = "returned"]
    /\ NicsUnchanged

NicsAcquire_NoLimit(i) ==
    /\ i \in DOMAIN nics.g
    /\ nics.g[i] = "acquire"
    /\ nics' = [nics EXCEPT !.semaphore = @ + 1, !.g[i] = "describe"]
    /\ NicsUnchanged

\* semaphore <- struct{}{}: the send blocks while the buffer is full
NicsAcquire(i) ==
    /\ i \in DOMAIN nics.g
    /\ nics.g[i] = "acquire"
    /\ nics.semaphore < nics.maxParallelRequests
    /\ nics' = [nics EXCEPT !.semaphore = @ + 1, !.g[i] = "describe"]
    /\ NicsUnchanged

\* exporter.Describe(ch) returns
NicsDescribe(i) ==
    /\ i \in DOMAIN nics.g
    /\ nics.g[i] = "describe"
    /\ nics' = [nics EXCEPT !.g[i] = "release"]
    /\ NicsUnchanged

\* deferred func() { <-semaphore }()
NicsRelease(i) ==
    /\ i \in DOMAIN nics.g
    /\ nics.g[i] = "release"
    /\ nics' = [nics EXCEPT !.semaphore = @ - 1, !.g[i] = "signal"]
    /\ NicsUnchanged

\* deferred wg.Done()
NicsDone(i) ==
    /\ i \in DOMAIN nics.g
    /\ nics.g[i] = "signal"
    /\ nics' = [nics EXCEPT !.wg = @ - 1, !.g[i] = "done"]
    /\ NicsUnchanged

NextNics ==
    \/ NicsSpawn
    \/ NicsWait
    \/ \E i \in SubCollectors : NicsAcquire(i)
    \/ \E i \in SubCollectors : NicsDescribe(i)
    \/ \E i \in SubCollectors : NicsRelease(i)
    \/ \E i \in SubCollectors : NicsDone(i)

SpecNics == InitNics /\ [][NextNics]_vars

\* the Go scheduler runs every goroutine that can take a step, and every
\* sub-collector's Describe is taken to return
SpecNicsFair ==
    /\ InitNics
    /\ [][NextNics]_vars
    /\ WF_vars(NicsSpawn)
    /\ WF_vars(NicsWait)
    /\ \A i \in SubCollectors :
          /\ WF_vars(NicsAcquire(i))
          /\ WF_vars(NicsDescribe(i))
          /\ WF_vars(NicsRelease(i))
          /\ WF_vars(NicsDone(i))

-----------------------------------------------------------------------------
(* Tracker operations at the level of their locks: goroutines calling a Mark*/Inc*
   helper or the health collector's Collect, the poll-cycle ticker, and the consumer
   of the metrics channel. *)

\* the goroutines are interchangeable: they are numbered by the operation they call
OpRank(op, section) ==
    (IF op = "mark" THEN 0 ELSE 2) + (IF section = "s1" THEN 0 ELSE 1)

InitLocks ==
    /\ healthBySection = <<>>
    /\ lastCall = NoCall
    /\ hist = [s \in HealthSections |-> NoHistory]
    /\ calls = 0
    /\ clusterUUIDCache = <<>>
    /\ nutanixURL = ""
    /\ req = [r \in Requests |-> IdleRequest]
    /\ pager = IdlePager
    /\ gor = [g \in Goroutines |-> IdleGoroutine]
    /\ mu = NoHolder
    /\ run = IdleRun
    /\ conv = IdleConv
    /\ sc = IdleStats
    /\ nics = IdleNics
    /\ \E ops \in [LockWorkers -> LockOps], secs \in [LockWorkers -> LockSections] :
          /\ \A i \in LockWorkers, j \in LockWorkers :
                i < j => OpRank(ops[i], secs[i]) <= OpRank(ops[j], secs[j])
          /\ lk = NewLocks([i \in LockWorkers \cup {Ticker} |->
                               IF i = Ticker THEN TickerProc
                               ELSE NewLockProc(ops[i], secs[i])])

LocksUnchanged ==
    UNCHANGED <<healthBySection, lastCall, hist, calls, handlerVars, pager, gor, mu, run,
                statVars, nics>>

\* getHealth: healthMu.Lock()
LkGetHealthLock(p) ==
    /\ lk.p[p].pc = "getHealth"
    /\ CanAnnounce(lk.healthMu)
    /\ lk' = [lk EXCEPT !.healthMu = Announce(@, p), !.p[p].pc = "getHealthWait"]
    /\ LocksUnchanged

LkGetHealthEnter(p) ==
    /\ lk.p[p].pc = "getHealthWait"
    /\ CanAcquire(lk.healthMu, p)
    /\ lk' = [lk EXCEPT !.healthMu = Acquire(@), !.p[p].pc = "inGetHealth"]
    /\ LocksUnchanged

LkGetHealthReturn_KeepsLock(p) ==
    /\ lk.p[p].pc = "inGetHealth"
    /\ lk' = [lk EXCEPT !.records = @ \cup {lk.p[p].section},
                        !.p[p].pc = IF lk.p[p].op = "collect" THEN "rlock" ELSE "lock"]
    /\ LocksUnchanged

\* getHealth: look the record up, create it when missing, and return through the
\* deferred healthMu.Unlock()
LkGetHealthReturn(p) ==
    /\ lk.p[p].pc = "inGetHealth"
    /\ lk' = [lk EXCEPT !.records = @ \cup {lk.p[p].section},
                        !.healthMu = Unlock(@),
                        !.p[p].pc = IF lk.p[p].op = "collect" THEN "rlock" ELSE "lock"]
    /\ LocksUnchanged

\* a Mark*/Inc* helper: h.mu.Lock()
LkLock(p) ==
    /\ lk.p[p].pc = "lock"
    /\ CanAnnounce(lk.mu[lk.p[p].section])
    /\ lk' = [lk EXCEPT !.mu[lk.p[p].section] = Announce(@, p), !.p[p].pc = "lockWait"]
    /\ LocksUnchanged

LkLocked(p) ==
    /\ lk.p[p].pc = "lockWait"
    /\ CanAcquire(lk.mu[lk.p[p].section], p)
    /\ lk' = [lk EXCEPT !.mu[lk.p[p].section] = Acquire(@), !.p[p].pc = "locked"]
    /\ LocksUnchanged

\* the helper updates the record and calls h.mu.Unlock()
LkUnlock(p) ==
    /\ lk.p[p].pc = "locked"
    /\ lk' = [lk EXCEPT !.mu[lk.p[p].section] = Unlock(@), !.p[p].pc = "done"]
    /\ LocksUnchanged

\* Collect: h.mu.RLock()
LkRLock(p) ==
    /\ lk.p[p].pc = "rlock"
    /\ CanRLock(lk.mu[lk.p[p].section])
    /\ lk' = [lk EXCEPT !.mu[lk.p[p].section] = RLock(@, p),
                        !.p[p].pc = "send", !.p[p].sends = MaxSends]
    /\ LocksUnchanged

\* Collect: ch <- metric, taken together with the consumer's receive
LkConsume(p) ==
    /\ lk.p[p].pc = "send"
    /\ lk' = [lk EXCEPT !.p[p].sends = @ - 1,
                        !.p[p].pc = IF lk.p[p].sends = 1 THEN "runlock" ELSE "send"]
    /\ LocksUnchanged

\* Collect returns through the deferred h.mu.RUnlock()
LkRUnlock(p) ==
    /\ lk.p[p].pc = "runlock"
    /\ lk' = [lk EXCEPT !.mu[lk.p[p].section] = RUnlock(@, p), !.p[p].pc = "done"]
    /\ LocksUnchanged

\* the ticker's timer fires
TickFire ==
    /\ lk.p[Ticker].pc = "sleep"
    /\ lk.ticks < MaxTicks
    /\ lk' = [lk EXCEPT !.p[Ticker].pc = "tRLock"]
    /\ LocksUnchanged

\* healthMu.RLock(); for _, h := range healthBySection
TickRLock ==
    /\ lk.p[Ticker].pc = "tRLock"
    /\ CanRLock(lk.healthMu)
    /\ lk' = [lk EXCEPT !.healthMu = RLock(@, Ticker),
                        !.p[Ticker].pc = "range", !.p[Ticker].todo = lk.records]
    /\ LocksUnchanged

\* the range statement yields the next record, in any order
TickNext(s) ==
    /\ lk.p[Ticker].pc = "range"
    /\ s \in lk.p[Ticker].todo
    /\ lk' = [lk EXCEPT !.p[Ticker].pc = "lock", !.p[Ticker].section = s]
    /\ LocksUnchanged

\* h.mu.Lock()
TickLock ==
    /\ lk.p[Ticker].pc = "lock"
    /\ CanAnnounce(lk.mu[lk.p[Ticker].section])
    /\ lk' = [lk EXCEPT !.mu[lk.p[Ticker].section] = Announce(@, Ticker),
                        !.p[Ticker].pc = "lockWait"]
    /\ LocksUnchanged

TickLocked ==
    /\ lk.p[Ticker].pc = "lockWait"
    /\ CanAcquire(lk.mu[lk.p[Ticker].section], Ticker)
    /\ lk' = [lk EXCEPT !.mu[lk.p[Ticker].section] = Acquire(@), !.p[Ticker].pc = "locked"]
    /\ LocksUnchanged

\* h.totalPollCycles++; h.mu.Unlock()
TickUnlock ==
    /\ lk.p[Ticker].pc = "locked"
    /\ lk' = [lk EXCEPT !.mu[lk.p[Ticker].section] = Unlock(@),
                        !.p[Ticker].pc = "range",
                        !.p[Ticker].todo = @ \ {lk.p[Ticker].section}]
    /\ LocksUnchanged

\* the range is exhausted: healthMu.RUnlock(), back to the select
TickRUnlock ==
    /\ lk.p[Ticker].pc = "range"
    /\ lk.p[Ticker].todo = {}
    /\ lk' = [lk EXCEPT !.healthMu = RUnlock(@, Ticker),
                        !.p[Ticker].pc = "sleep", !.p[Ticker].section = "",
                        !.ticks = @ + 1]
    /\ LocksUnchanged

\* the steps of the goroutine of one tracker operation
LkStep(p) ==
    \/ LkGetHealthLock(p)
    \/ LkGetHealthEnter(p)
    \/ LkGetHealthReturn(p)
    \/ LkLock(p)
    \/ LkLocked(p)
    \/ LkUnlock(p)
    \/ LkRLock(p)
    \/ LkRUnlock(p)

TickStep ==
    \/ TickFire
    \/ TickRLock
    \/ \E s \in LockSections : TickNext(s)
    \/ TickLock
    \/ TickLocked
    \/ TickUnlock
    \/ TickRUnlock

NextLocks ==
    \/ \E p \in LockWorkers : LkStep(p)
    \/ \E p \in LockWorkers : LkConsume(p)
    \/ TickStep

\* every goroutine that can take a step is scheduled, and the consumer of the metrics
\* channel keeps receiving
SpecLocksFair ==
    /\ InitLocks
    /\ [][NextLocks]_vars
    /\ \A p \in LockWorkers : WF_vars(LkStep(p))
    /\ \A p \in LockWorkers : WF_vars(LkConsume(p))
    /\ WF_vars(TickStep)

-----------------------------------------------------------------------------
(* Properties of the health tracker, checked under SpecHealth *)

\* the record of a section (a record not yet created holds all zeroes once referenced)
Rec(hb, s) == IF s \in DOMAIN hb THEN hb[s] ELSE ZeroHealth

\* the step just taken was a call of op on section s
Called(op, s) == lastCall'.op = op /\ lastCall'.section = s

\* C1: two MarkCollectionStart(S) calls with no MarkCollectionEnd(S, ...) in between
\* return true and then false, and the second call adds exactly 1 to
\* errCollectionStillRunning (the first adds nothing).
C1_StartTwice ==
    [][\A s \in HealthSections :
        Called("MarkCollectionStart", s) =>
            /\ Len(hist[s].starts) = 0 =>
                 /\ lastCall'.ret = TRUE
                 /\ Rec(healthBySection', s).errCollectionStillRunning
                      = Rec(healthBySection, s).errCollectionStillRunning
            /\ Len(hist[s].starts) = 1 =>
                 /\ hist[s].starts[1] = TRUE
                 /\ lastCall'.ret = FALSE
                 /\ Rec(healthBySection', s).errCollectionStillRunning
                      = Rec(healthBySection, s).errCollectionStillRunning + 1]_vars

C1_Witness ==
    \E s \in HealthSections :
        /\ lastCall.op = "MarkCollectionStart" /\ lastCall.section = s
        /\ hist[s].starts = <<TRUE, FALSE>>
        /\ Rec(healthBySection, s).errCollectionStillRunning = 1

\* C2: the active-collection count of every section is 0 or 1 after any sequence of
\* MarkCollectionStart and MarkCollectionEnd calls, MarkCollectionEnd on an idle
\* section included.
C2_ActiveZeroOrOne ==
    \A s \in DOMAIN healthBySection : healthBySection[s].activeCollections \in {0, 1}

C2_Witness ==
    \E s \in HealthSections :
        /\ calls = 3
        /\ hist[s].ends = 1
        /\ hist[s].starts = <<TRUE, FALSE>>
        /\ Rec(healthBySection, s).errCollectionStillRunning = 1
        /\ Rec(healthBySection, s).activeCollections = 1

C5_OneOutcomeCounter ==
    [][\A s \in HealthSections :
        Called("MarkCollectionEnd", s) =>
            LET b == Rec(healthBySection, s)
                a == Rec(healthBySection', s)
            IN  IF lastCall'.success
                THEN /\ a.successfulPCCallNoErrors = b.successfulPCCallNoErrors + 1
                     /\ a.failedCollections = b.failedCollections
                     /\ a.totalFailureCollectionDurationUS = b.totalFailureCollectionDurationUS
                ELSE /\ a.failedCollections = b.failedCollections + 1
                     /\ a.successfulPCCallNoErrors = b.successfulPCCallNoErrors
                     /\ a.totalSuccessCollectionDurationUS = b.totalSuccessCollectionDurationUS]_vars

C5_Witness ==
    \E s \in HealthSections :
        /\ lastCall.op = "MarkCollectionEnd" /\ lastCall.section = s /\ ~lastCall.success
        /\ Rec(healthBySection, s).failedCollections = 1
        /\ Rec(healthBySection, s).successfulPCCallNoErrors = 1
        /\ Rec(healthBySection, s).totalSuccessCollectionDurationUS = 3
        /\ Rec(healthBySection, s).totalFailureCollectionDurationUS = 1

\* C10: a failed request is recorded in exactly one class: a timeout adds 1 to
\* errConnTimeout only, "no such host" adds 1 to errDNSFailure only, any other
\* transport error adds 1 to errException only, and an HTTP status >= 400 changes
\* none of the three.
C10_OneErrorClass ==
    [][\A s \in HealthSections :
        Called("makeRequestWithParams", s) =>
            LET b == Rec(healthBySection, s)
                a == Rec(healthBySection', s)
                Delta(t, n, e) ==
                    /\ a.errConnTimeout = b.errConnTimeout + t
                    /\ a.errDNSFailure = b.errDNSFailure + n
                    /\ a.errException = b.errException + e
            IN  /\ lastCall'.outcome = "timeout" => Delta(1, 0, 0)
                /\ lastCall'.outcome = "no_such_host" => Delta(0, 1, 0)
                /\ lastCall'.outcome = "transport_error" => Delta(0, 0, 1)
                /\ lastCall'.outcome = "http_error" => Delta(0, 0, 0)]_vars

\* C11: every request made through makeRequestWithParams adds 1 to exactly one of
\* successDeviceCmd and failureDeviceCmd of its section (the successful one when the
\* request succeeded) and adds a duration to the matching accumulator only, so that
\* the two counters always sum to the number of requests made.
C11_RequestCounted ==
    [][\A s \in HealthSections :
        Called("makeRequestWithParams", s) =>
            LET b == Rec(healthBySection, s)
                a == Rec(healthBySection', s)
            IN  IF lastCall'.outcome = "ok"
                THEN /\ a.successDeviceCmd = b.successDeviceCmd + 1
                     /\ a.failureDeviceCmd = b.failureDeviceCmd
                     /\ a.totalSuccessCmdExecDurationUS >= b.totalSuccessCmdExecDurationUS
                     /\ a.totalFailureCmdExecDurationUS = b.totalFailureCmdExecDurationUS
                ELSE /\ a.failureDeviceCmd = b.failureDeviceCmd + 1
                     /\ a.successDeviceCmd = b.successDeviceCmd
                     /\ a.totalFailureCmdExecDurationUS >= b.totalFailureCmdExecDurationUS
                     /\ a.totalSuccessCmdExecDurationUS = b.totalSuccessCmdExecDurationUS]_vars

\* C17: MarkCmdSuccess(S, d) adds 1 to successDeviceCmd and d in microseconds to
\* totalSuccessCmdExecDurationUS, MarkCmdFailure(S, d) does the same to the failure
\* pair, and neither changes any other field of the record.
C17_CmdTouchesOnlyItsPair ==
    [][\A s \in HealthSections :
        LET b == Rec(healthBySection, s)
            a == Rec(healthBySection', s)
        IN  /\ Called("MarkCmdSuccess", s) =>
                 a = [b EXCEPT !.successDeviceCmd = @ + 1,
                               !.totalSuccessCmdExecDurationUS = @ + (lastCall'.d \div 1000)]
            /\ Called("MarkCmdFailure", s) =>
                 a = [b EXCEPT !.failureDeviceCmd = @ + 1,
                               !.totalFailureCmdExecDurationUS = @ + (lastCall'.d \div 1000)]]_vars

C17_Witness ==
    \E s \in HealthSections :
        /\ lastCall.op = "MarkCmdFailure" /\ lastCall.section = s /\ lastCall.d = 3000
        /\ Rec(healthBySection, s).activeCollections = 1
        /\ Rec(healthBySection, s).successDeviceCmd = 1
        /\ Rec(healthBySection, s).failureDeviceCmd = 1
        /\ Rec(healthBySection, s).totalFailureCmdExecDurationUS = 3

\* C18: in every state the successful-collection duration total of a section is at
\* least its successful-command duration total, and the failed-collection duration
\* total is at least its failed-command duration total.
C18_CollectionAtLeastCommand ==
    \A s \in DOMAIN healthBySection :
        /\ healthBySection[s].totalSuccessCollectionDurationUS
             >= healthBySection[s].totalSuccessCmdExecDurationUS
        /\ healthBySection[s].totalFailureCollectionDurationUS
             >= healthBySection[s].totalFailureCmdExecDurationUS

\* C20: a tracker operation on one section leaves every field of every other
\* section's record unchanged and never removes a record, and getHealth returns the
\* record already stored for a section name.
C20_SectionsIndependent ==
    [][\A s \in HealthSections :
        /\ \A t \in HealthSections \ {s} :
             lastCall'.section = s =>
                 /\ Rec(healthBySection', t) = Rec(healthBySection, t)
                 /\ t \in DOMAIN healthBySection => t \in DOMAIN healthBySection'
        /\ s \in DOMAIN healthBySection =>
             /\ getHealth(healthBySection, s)[s] = healthBySection[s]
             /\ s \in DOMAIN healthBySection'
        /\ s \in DOMAIN getHealth(healthBySection, s)]_vars

C20_Witness ==
    /\ lastCall.section = "s2" /\ lastCall.op = "IncConnTimeout"
    /\ calls = 3
    /\ Rec(healthBySection, "s1").successDeviceCmd = 1
    /\ Rec(healthBySection, "s1").activeCollections = 1
    /\ Rec(healthBySection, "s1").errConnTimeout = 0
    /\ Rec(healthBySection, "s2").errConnTimeout = 1
    /\ Rec(healthBySection, "s2").successDeviceCmd = 0

-----------------------------------------------------------------------------
(* Properties of the /metrics handler, checked under Spec *)

\* the scrape has been accepted by MarkCollectionStart and has not yet ended
InCollection(r) == req[r].pc \in {"fetch", "health", "serve", "end"}

\* the scrape has returned without being accepted
Rejected(r) == req[r].pc = "done" /\ ~req[r].started

\* the response carries every health metric, each labelled with section label
HealthFamilyFor(r, label) ==
    /\ req[r].written
    /\ \A n \in HealthMetricNames :
         \E x \in req[r].response : x.name = n /\ x.section = label

\* the response carries nothing but health metrics
OnlyHealthSeries(r) == \A x \in req[r].response : x.name \in HealthMetricNames

\* C6: a scrape arriving while a collection of the same section is active never waits:
\* its MarkCollectionStart step can always be taken, and when rejected it returns
\* having registered no collector and issued no upstream request, so two collections
\* of one section never run together.
C6_OverlapSkips ==
    \A r \in Requests :
        /\ req[r].pc = "start" => ENABLED HandlerStart(r)
        /\ Rejected(r) =>
             /\ req[r].registered = {}
             /\ req[r].upstream = 0
             /\ req[r].endCalls = 0
        /\ \A r2 \in Requests \ {r} :
             (InCollection(r) /\ InCollection(r2)) =>
                 req[r].healthSectionKey # req[r2].healthSectionKey

C6_Witness ==
    \E r \in Requests, r2 \in Requests :
        /\ r # r2
        /\ Rejected(r)
        /\ InCollection(r2)
        /\ req[r].healthSectionKey = req[r2].healthSectionKey
        /\ req[r2].upstream > 0

\* C26: an entry of the cluster-identifier cache, once written for a section, is never
\* changed or removed (so it is written at most once), and a scrape that finds its
\* section's entry issues no cluster-identifier lookup.
C26_CacheWrittenOnce ==
    /\ [][\A s \in DOMAIN clusterUUIDCache :
              /\ s \in DOMAIN clusterUUIDCache'
              /\ clusterUUIDCache'[s] = clusterUUIDCache[s]]_vars
    /\ [](\A r \in Requests :
              req[r].pc = "fetch" => req[r].section \notin DOMAIN clusterUUIDCache)

C26_Witness ==
    \E r \in Requests, r2 \in Requests :
        /\ r # r2
        /\ req[r].pc = "done" /\ req[r].section = "a" /\ req[r].upstream > 0
        /\ "a" \in DOMAIN clusterUUIDCache
        /\ req[r2].pc = "health" /\ req[r2].section = "a" /\ ~req[r2].healthOnly
        /\ req[r2].upstream = 0
        /\ req[r2].healthUUID = clusterUUIDCache["a"]

\* C29: a scrape whose MarkCollectionStart returned true has called MarkCollectionEnd
\* exactly once when its handler has returned, on every path, and not before; a
\* rejected scrape never calls it; and when no scrape of a section is running the
\* section's record has no active collection, so the next scrape is accepted.
C29_EndExactlyOnce ==
    /\ \A r \in Requests :
          /\ req[r].pc = "done" => req[r].endCalls = IF req[r].started THEN 1 ELSE 0
          /\ req[r].pc # "done" => req[r].endCalls = 0
    /\ \A key \in DOMAIN healthBySection :
          (\A r \in Requests : ~(InCollection(r) /\ req[r].healthSectionKey = key)) =>
              /\ healthBySection[key].activeCollections = 0
              /\ MarkCollectionStart(healthBySection[key]).ret

C29_Witness ==
    \E r \in Requests, r2 \in Requests :
        /\ r # r2
        /\ req[r].healthSectionKey = req[r2].healthSectionKey
        /\ req[r].pc = "done" /\ req[r].started /\ req[r].endCalls = 1
        /\ ~req[r].collectionSuccess
        /\ req[r2].pc = "done" /\ req[r2].started /\ req[r2].endCalls = 1
        /\ req[r2].healthOnly

\* C7: every scrape that has returned wrote a response containing the complete health
\* metric family of the requested section's tracker record.
C7_HealthAlwaysServed ==
    \A r \in Requests :
        req[r].pc = "done" => HealthFamilyFor(r, req[r].healthSectionKey)

\* C8: a health=true scrape, for any section, issues no upstream request, registers no
\* entity collector and returns exactly the health series labelled with that section.
C8_HealthOnlyScrape ==
    \A r \in Requests :
        (req[r].pc = "done" /\ req[r].healthOnly) =>
            /\ req[r].upstream = 0
            /\ req[r].registered \subseteq {<<"health", "ok">>}
            /\ HealthFamilyFor(r, req[r].section)
            /\ OnlyHealthSeries(r)

\* C9: a health=false scrape of a section missing from the configuration returns the
\* health-only output for that section, issues no upstream request and is recorded as
\* one completed collection.
C9_UnknownSectionScrape ==
    \A r \in Requests :
        (req[r].pc = "done" /\ ~req[r].healthOnly /\ ~req[r].ok) =>
            /\ HealthFamilyFor(r, req[r].section)
            /\ OnlyHealthSeries(r)
            /\ req[r].upstream = 0
            /\ req[r].endCalls = 1

\* the enabled entity collectors of the scrape's section that were registered
EntityCollectorsOf(r) == {f[1] : f \in {g \in req[r].registered : g[1] # "health"}}

\* C12: an accepted scrape of a configured section whose response was not interrupted
\* while being written carries the health family of its record and the series of
\* every collector that was registered and did not itself fail, whatever happened
\* inside the other collectors.
C12_FailuresAreContained ==
    \A r \in Requests :
        (req[r].pc = "done" /\ req[r].started /\ req[r].ok /\ ~req[r].healthOnly
           /\ req[r].collectionSuccess) =>
            /\ HealthFamilyFor(r, req[r].healthSectionKey)
            /\ \A f \in {"hosts", "cluster"} :
                 <<f, "ok">> \in req[r].registered => \E x \in req[r].response : x.name = f

-----------------------------------------------------------------------------
(* Properties of fetchAllPages, checked under SpecPaging *)

RECURSIVE ConcatPages(_, _)
\* the entities of pages 1..k in page order
ConcatPages(upstream, k) ==
    IF k = 0 THEN <<>> ELSE ConcatPages(upstream, k - 1) \o upstream[k].entities

\* a page with an entity list and metadata that unmarshals
FullPage(pg) ==
    ~pg.err /\ pg.bodyOK /\ pg.hasEntities /\ pg.entitiesIsList /\ pg.hasMetadata /\ pg.metadataOK

\* a full page whose metadata reports end_index >= grand_total_entities
LastPage(pg) == FullPage(pg) /\ pg.EndIndex >= pg.GrandTotal

\* the upstream serves full pages up to page k, the first to report the end
ServesUntil(upstream, k) ==
    /\ k \in DOMAIN upstream
    /\ LastPage(upstream[k])
    /\ \A j \in 1..(k - 1) : FullPage(upstream[j]) /\ ~LastPage(upstream[j])

\* n requests were made, for pages 1, 2, ..., n in this order
RequestedInOrder(n) ==
    /\ Len(pager.requests) = n
    /\ \A i \in 1..n : pager.requests[i] = i

\* C15: against an upstream that serves pages until page k reports end_index >=
\* grand_total_entities, fetchAllPages requests pages 1, 2, ..., k once each in
\* increasing order, stops after page k and returns the entities of pages 1..k in page
\* order without error.
C15_PagesInOrder ==
    \A k \in DOMAIN pager.upstream :
        ServesUntil(pager.upstream, k) =>
            /\ Len(pager.requests) <= k
            /\ RequestedInOrder(Len(pager.requests))
            /\ pager.pc = "returned" =>
                 /\ RequestedInOrder(k)
                 /\ ~pager.err
                 /\ pager.allEntities = ConcatPages(pager.upstream, k)

C15_Witness ==
    /\ pager.pc = "returned"
    /\ Len(pager.upstream) = 2
    /\ pager.upstream[1].entities = <<"e1", "e2">>
    /\ pager.upstream[1].metadataOK
    /\ pager.upstream[1].EndIndex = 2 /\ pager.upstream[1].GrandTotal = 3
    /\ pager.upstream[2].entities = <<"e3">>
    /\ pager.upstream[2].metadataOK
    /\ pager.upstream[2].EndIndex = 3 /\ pager.upstream[2].GrandTotal = 3
    /\ pager.requests = <<1, 2>>
    /\ pager.allEntities = <<"e1", "e2", "e3">>
    /\ ~pager.err

\* C16: no request follows a page response that lacks the entities field or the
\* metadata field, and the call then returns without error the entities accumulated
\* so far, those of the last page included when only its metadata is missing.
C16_StopsOnMissingField ==
    LET n == Len(pager.requests)
    IN  /\ \A i \in 1..(n - 1) :
             /\ i \in DOMAIN pager.upstream
             /\ pager.upstream[i].hasEntities
             /\ pager.upstream[i].hasMetadata
        /\ (pager.pc = "returned" /\ n \in DOMAIN pager.upstream /\ ~pager.upstream[n].err
              /\ pager.upstream[n].bodyOK) =>
             /\ ~pager.upstream[n].hasEntities =>
                  /\ ~pager.err
                  /\ pager.allEntities = ConcatPages(pager.upstream, n - 1)
             /\ (pager.upstream[n].hasEntities /\ pager.upstream[n].entitiesIsList
                   /\ ~pager.upstream[n].hasMetadata) =>
                  /\ ~pager.err
                  /\ pager.allEntities = ConcatPages(pager.upstream, n)

C16_Witness ==
    /\ pager.pc = "returned"
    /\ Len(pager.upstream) = 2
    /\ pager.requests = <<1, 2>>
    /\ pager.upstream[1].entities = <<"e1", "e2">>
    /\ pager.upstream[2].entities = <<"e3">>
    /\ pager.upstream[2].entitiesIsList
    /\ ~pager.upstream[2].hasMetadata
    /\ pager.allEntities = <<"e1", "e2", "e3">>
    /\ ~pager.err

\* the request for the page failed, or its body or its metadata did not decode
FailedPage(pg) ==
    \/ pg.err
    \/ ~pg.bodyOK
    \/ pg.hasEntities /\ pg.entitiesIsList /\ pg.hasMetadata /\ ~pg.metadataOK

\* C30: when the request for a page fails, or the page's body or metadata cannot be
\* decoded, fetchAllPages returns an error and no entities (those of the earlier pages
\* are discarded), and that page is the last one requested.
C30_ErrorDiscardsEntities ==
    LET n == Len(pager.requests)
    IN  /\ \A i \in 1..(n - 1) : ~FailedPage(ServedPage(pager.upstream, i))
        /\ (pager.pc = "returned" /\ FailedPage(ServedPage(pager.upstream, n))) =>
             /\ pager.err
             /\ pager.allEntities = <<>>

C30_Witness ==
    /\ pager.pc = "returned"
    /\ pager.requests = <<1, 2>>
    /\ FullPage(pager.upstream[1]) /\ ~LastPage(pager.upstream[1])
    /\ pager.upstream[1].entities = <<"e1", "e2">>
    /\ Len(pager.upstream) = 2 /\ pager.upstream[2].err
    /\ pager.err
    /\ pager.allEntities = <<>>

-----------------------------------------------------------------------------
(* Properties of concurrent MarkCmdSuccess calls, checked under SpecConc *)

RECURSIVE SumPassedUS(_)
\* the microseconds passed by goroutines 1..n in their completed calls
SumPassedUS(n) == IF n = 0 THEN 0 ELSE SumPassedUS(n - 1) + gor[n].passedUS

AllDone == \A g \in Goroutines : gor[g].pc = "done"

\* C19: once every goroutine has made all its MarkCmdSuccess calls on the section, the
\* section's successDeviceCmd equals the number of calls made and its
\* totalSuccessCmdExecDurationUS equals the sum of the durations passed.
C19_NoLostUpdate ==
    AllDone =>
        /\ healthBySection[ConcSection].successDeviceCmd = NumGoroutines * CallsPerGoroutine
        /\ healthBySection[ConcSection].totalSuccessCmdExecDurationUS = SumPassedUS(NumGoroutines)

C19_Witness ==
    /\ AllDone
    /\ \E g \in Goroutines : gor[g].passedUS = 3 * CallsPerGoroutine
    /\ \E g \in Goroutines : gor[g].passedUS < 3 * CallsPerGoroutine
    /\ healthBySection[ConcSection].successDeviceCmd = NumGoroutines * CallsPerGoroutine
    /\ healthBySection[ConcSection].totalSuccessCmdExecDurationUS > NumGoroutines * CallsPerGoroutine

-----------------------------------------------------------------------------
(* Properties of the entity collectors, checked under SpecCollect *)

\* C13: when a collector's discovery call fails, its Describe returns normally with no
\* descriptors registered (for the collectors that discover in Describe), and its
\* Collect emits no metric and does not fail.
C13_FailedDiscoveryIsQuiet ==
    run.discovery = "failed" =>
        /\ run.pc # "panicked"
        /\ run.emitted = {}
        /\ run.collector # "snapshots" => run.descriptors = {}

\* C14: Collect never aborts on an entity that lacks its uuid: the entity's stats are
\* not emitted and every entity that has its uuid gets its stats emitted.
C14_EntityWithoutUUIDSkipped ==
    run.discovery = "ok" =>
        /\ run.pc # "panicked"
        /\ run.pc = "returned" =>
             \A k \in DOMAIN run.entities :
                 /\ ~run.entities[k].hasUUID => <<k, "stat">> \notin run.emitted
                 /\ (run.entities[k].hasUUID /\ run.entities[k].hasStats
                       /\ run.collector # "snapshots") => <<k, "stat">> \in run.emitted

-----------------------------------------------------------------------------
(* Properties of the stat conversion and derivation, checked under SpecStats *)

\* the stat keys an upstream reports
UpstreamKeys == StatsKeys \cup UsageStatsKeys

\* C21: a key of an entity's stats or usage_stats gets a descriptor in Describe (and a
\* place in the metrics map) and a gauge in Collect only if it is in the collector's
\* allow-list filter_stats.
C21_OnlyAllowListed ==
    \A key \in UpstreamKeys :
        key \notin filter_stats(sc.collector) =>
            /\ normalizeKey(key) \notin sc.described
            /\ normalizeKey(key) \notin sc.metrics
            /\ \A g \in sc.emitted : g[1] # normalizeKey(key)

C21_Witness ==
    /\ sc.collector = "storage_containers"
    /\ sc.pc = "ready"
    /\ sc.describes = 1
    /\ {"controller_num_read_io", "controller_num_iops", TOTAL_IO_SIZE} \subseteq DOMAIN sc.response.stats
    /\ "storage.user_unreserved_capacity_bytes" \in DOMAIN sc.response.usage_stats
    /\ TOTAL_IO_SIZE \in sc.described
    /\ <<TOTAL_IO_SIZE, Whole(100)>> \in sc.emitted

\* the value is nil, a string that is not a number, or of a type without a conversion
Unavailable(value) ==
    \/ value.type \in {"nil", "bool"}
    \/ value.type = "string" /\ value.s \notin NumericStrings

\* C22: valueToFloat64 returns the unavailable sentinel, which is not zero, for nil,
\* for a non-numeric string and for an unsupported type, and the exact value for a
\* float, an int and a numeric string ("42.5" gives 42.5).
C22_SentinelForUnavailable ==
    conv.pc = "returned" =>
        /\ STAT_UNAVAILABLE # 0
        /\ Unavailable(conv.value) => conv.out = STAT_UNAVAILABLE
        /\ conv.value.type \in {"float64", "int"} => conv.out = conv.value.f
        /\ conv.value = GoString("42.5") => conv.out = 425

Max0(v) == IF v > 0 THEN v ELSE 0

\* the converted operand of the write I/O size in a stat map, 0 when absent
Operand(stats, key) == IF key \in DOMAIN stats THEN valueToFloat64(stats[key]) ELSE 0

\* C23: in every collector that derives it, the calculated write I/O size of an entity
\* is max(total, 0) - max(read, 0): 100 and 40 give 60, 100 and a negative read give 100.
C23_WriteSizeFloored ==
    (/\ sc.pc \in {"described", "ready"}
     /\ sc.describes > 0
     /\ ~sc.result.isNil /\ sc.result.hasEntity /\ sc.result.hasStats) =>
        /\ METRIC_TOTAL_WRITE_IO_SIZE \in DOMAIN sc.result.stats
        /\ sc.result.stats[METRIC_TOTAL_WRITE_IO_SIZE] =
               Float64(Max0(Operand(sc.result.stats, TOTAL_IO_SIZE))
                       - Max0(Operand(sc.result.stats, READ_IO_SIZE)))

\* C27: when a Describe on an instance has returned, the instance's metrics map holds
\* the descriptors that Describe sent and no other, and its result is what that
\* Describe fetched: nil after a failed discovery, else the fetched document.
C27_DescribeLeavesNothingStale ==
    sc.pc = "described" =>
        /\ sc.metrics = sc.described
        /\ ~sc.response.ok => sc.result.isNil
        /\ sc.response.ok =>
             /\ ~sc.result.isNil
             /\ sc.result.hasEntity = sc.response.hasEntity
             /\ sc.result.hasUsage = sc.response.hasUsage
             /\ sc.result.usage_stats = sc.response.usage_stats
             /\ sc.result.hasStats = sc.response.hasStats
             /\ DOMAIN sc.result.stats \cap StatsKeys = DOMAIN sc.response.stats
             /\ \A k \in DOMAIN sc.response.stats : sc.result.stats[k] = sc.response.stats[k]


-----------------------------------------------------------------------------
(* Properties of DescribeNicsParallel, checked under SpecNics and SpecNicsFair *)

\* the sub-collectors whose Describe is running
Describing == {i \in DOMAIN nics.g : nics.g[i] = "describe"}

\* C24: the number of sub-collector Describe calls running at once never exceeds the
\* client's maxParallelRequests, which is the configured value when that is positive
\* and 10 otherwise.
C24_BoundedFanOut ==
    /\ Cardinality(Describing) <= nics.maxParallelRequests
    /\ nics.maxParallelRequests = IF nics.configured > 0 THEN nics.configured ELSE 10

C24_Witness ==
    /\ nics.configured = 2
    /\ nics.n = 3
    /\ Cardinality(Describing) = 2
    /\ \E i \in DOMAIN nics.g : nics.g[i] = "acquire"

\* C25: DescribeNicsParallel returns only after the Describe of every sub-collector has
\* completed, and, every Describe returning, it does return.
C25_FullBarrier ==
    /\ [](nics.pc = "returned" => \A i \in DOMAIN nics.g : nics.g[i] = "done")
    /\ <>(nics.pc = "returned")

C25_Witness ==
    /\ nics.pc = "returned"
    /\ nics.n = 3
    /\ nics.maxParallelRequests = 1
    /\ \A i \in DOMAIN nics.g : nics.g[i] = "done"


-----------------------------------------------------------------------------
(* Properties of the tracker's locks, checked under SpecLocksFair *)

\* the goroutine holds, or has announced itself as writer of, the record lock of s
OnRecordLock(p, s) == lk.mu[s].w = p \/ p \in lk.mu[s].readers

\* the goroutine is asking for healthMu and does not hold it yet
AsksHealthMu(p) == lk.p[p].pc \in {"getHealth", "getHealthWait", "tRLock"}

\* every operation has completed and the ticker is between two ticks
LocksQuiet ==
    /\ \A p \in LockWorkers : lk.p[p].pc = "done"
    /\ lk.p[Ticker].pc = "sleep"

\* C28: no interleaving of the tracker operations deadlocks: a goroutine asking for
\* healthMu holds no record lock (the locks are only ever taken map first, record
\* second), some goroutine can always take a step until all operations are done, and,
\* the consumer reading the metrics, every operation completes.
C28_NoDeadlock ==
    /\ [](\A p \in LockWorkers \cup {Ticker}, s \in LockSections :
             AsksHealthMu(p) => ~OnRecordLock(p, s))
    /\ [](LocksQuiet \/ ENABLED NextLocks)
    /\ \A p \in LockWorkers : <>(lk.p[p].pc = "done")
    /\ <>[](lk.p[Ticker].pc = "sleep" /\ lk.ticks = MaxTicks)

C28_Witness ==
    /\ lk.p[Ticker].pc = "lockWait"
    /\ \E p \in LockWorkers :
          /\ lk.p[p].op = "collect" /\ lk.p[p].pc = "send"
          /\ lk.p[p].section = lk.p[Ticker].section
    /\ \E p \in LockWorkers : lk.p[p].pc = "getHealthWait"


=============================================================================
